---- MODULE Spec2Model ----
(***************************************************************************)
(* OTA manager of the cat collar firmware (src/wifi_app/wifi_ota_manager.c) *)
(* as a state machine.  Three execution contexts run the code: a foreign   *)
(* caller (shell / UI), the background OTA task (ota_task_main) and the    *)
(* transport's event context, which runs ota_fw_update_response_handler.   *)
(* Each action is one step of one context between two points at which the  *)
(* RTOS can switch contexts (a blocking call, or a write to shared memory). *)
(***************************************************************************)
EXTENDS Integers, Sequences, FiniteSets, TLC

(***************************************************************************)
(* Program constants (wifi_ota_config.h) and model bounds.                  *)
(***************************************************************************)
OTA_MAX_DNS_RETRY_COUNT == 3
VERSION_CHECK_INTERVAL == 3600
MAX_VERSION_STRING_LENGTH == 32

\* Bounds of the model: readings of the kernel clock, events the transport
\* delivers per transfer, and the overall download timeout in seconds.  The
\* firmware is configured with OTA_TIMEOUT 1200000 (1200 one-second polls);
\* the model runs the same wait with a timeout of TimeoutSeconds.
MaxTicks == 1
MaxEvents == 2
TimeoutSeconds == 20
OTA_TIMEOUT == TimeoutSeconds * 1000

Contexts == {"caller", "task"}

\* Strings are sequences of one-character strings.
S_1_0_0  == <<"1", ".", "0", ".", "0">>
S_1_1    == <<"1", ".", "1">>
S_1_10_0 == <<"1", ".", "1", "0", ".", "0">>
S_abc    == <<"a", "b", "c">>

\* Values CURRENT_FIRMWARE_VERSION is built with (-DCURRENT_FIRMWARE_VERSION=...).
BuildVersions == {S_1_0_0, S_1_1, S_1_10_0, S_abc}

\* The token ota_fetch_version_info copies into the caller's buffer.
ServedToken == <<"1", ".", "1", ".", "0">>

\* Readings of osKernelGetTickCount() / osKernelGetTickFreq(), in seconds.
Times == {k * VERSION_CHECK_INTERVAL : k \in 0..MaxTicks}

(***************************************************************************)
(* String helpers: strncpy, sscanf("%d.%d.%d").                             *)
(***************************************************************************)
Min(a, b) == IF a < b THEN a ELSE b

\* strncpy(dst, src, n - 1); dst[n - 1] = 0
StrNCopy(s, n) == SubSeq(s, 1, Min(Len(s), n - 1))

\* White space, as sscanf's %d and isspace() see it.
IsSpaceNever(ch) == FALSE

IsSpace(ch) == ch \in {" ", "\t", "\r", "\n"}

IsDigit(ch) == ch \in {"0", "1", "2", "3", "4", "5", "6", "7", "8", "9"}

\* Value of a decimal digit.
DigitValZero(ch) == 0

DigitVal(ch) ==
  CASE ch = "0" -> 0 [] ch = "1" -> 1 [] ch = "2" -> 2 [] ch = "3" -> 3
    [] ch = "4" -> 4 [] ch = "5" -> 5 [] ch = "6" -> 6 [] ch = "7" -> 7
    [] ch = "8" -> 8 [] ch = "9" -> 9

RECURSIVE SkipSpace(_, _)
SkipSpace(s, i) ==
  IF i <= Len(s) /\ IsSpace(s[i]) THEN SkipSpace(s, i + 1) ELSE i

RECURSIVE ScanDigits(_, _, _)
\* Consumes the run of digits at s[i..]; acc is the value read so far.
ScanDigits(s, i, acc) ==
  IF i <= Len(s) /\ IsDigit(s[i])
    THEN ScanDigits(s, i + 1, acc * 10 + DigitVal(s[i]))
    ELSE [val |-> acc, next |-> i]

\* One %d conversion at position i: skips white space, takes an optional
\* sign and then at least one digit.  res is "ok", "fail" (matching failure)
\* or "eof" (input exhausted before the conversion).
ScanInt(s, i) ==
  LET j    == SkipSpace(s, i)
      sgn  == j <= Len(s) /\ s[j] \in {"+", "-"}
      k    == IF sgn THEN j + 1 ELSE j
      d    == ScanDigits(s, k, 0)
  IN  IF j > Len(s) THEN [res |-> "eof", val |-> 0, next |-> j]
      ELSE IF d.next = k THEN [res |-> "fail", val |-> 0, next |-> k]
      ELSE [res |-> "ok",
            val |-> IF sgn /\ s[j] = "-" THEN 0 - d.val ELSE d.val,
            next |-> d.next]

\* sscanf(s, "%d.%d.%d", &major, &minor, &patch): n is the return value,
\* the fields not converted keep their initial 0.
ScanVersion(s) ==
  LET a == ScanInt(s, 1)
  IN  IF a.res = "eof" THEN [n |-> -1, major |-> 0, minor |-> 0, patch |-> 0]
      ELSE IF a.res = "fail" THEN [n |-> 0, major |-> 0, minor |-> 0, patch |-> 0]
      ELSE IF ~(a.next <= Len(s) /\ s[a.next] = ".")
        THEN [n |-> 1, major |-> a.val, minor |-> 0, patch |-> 0]
      ELSE LET b == ScanInt(s, a.next + 1)
           IN  IF b.res # "ok"
                 THEN [n |-> 1, major |-> a.val, minor |-> 0, patch |-> 0]
               ELSE IF ~(b.next <= Len(s) /\ s[b.next] = ".")
                 THEN [n |-> 2, major |-> a.val, minor |-> b.val, patch |-> 0]
               ELSE LET c == ScanInt(s, b.next + 1)
                    IN  IF c.res # "ok"
                          THEN [n |-> 2, major |-> a.val, minor |-> b.val, patch |-> 0]
                          ELSE [n |-> 3, major |-> a.val, minor |-> b.val, patch |-> c.val]

(***************************************************************************)
(* ota_compare_versions                                                     *)
(***************************************************************************)
\* if (parsed1 < 1 || parsed2 < 1) return VERSION_INVALID;
ParseFailedFirstOnly(parsed1, parsed2) == parsed1 < 1

ParseFailed(parsed1, parsed2) == parsed1 < 1 \/ parsed2 < 1

ota_compare_versions_swapped(version1, version2) ==
  LET v1 == ScanVersion(version1)
      v2 == ScanVersion(version2)
  IN  IF ParseFailed(v1.n, v2.n) THEN "VERSION_INVALID"
      ELSE IF v1.major < v2.major THEN "VERSION_NEWER"
      ELSE IF v1.major > v2.major THEN "VERSION_OLDER"
      ELSE IF v1.minor < v2.minor THEN "VERSION_NEWER"
      ELSE IF v1.minor > v2.minor THEN "VERSION_OLDER"
      ELSE IF v1.patch < v2.patch THEN "VERSION_NEWER"
      ELSE IF v1.patch > v2.patch THEN "VERSION_OLDER"
      ELSE "VERSION_SAME"

ota_compare_versions(version1, version2) ==
  LET v1 == ScanVersion(version1)
      v2 == ScanVersion(version2)
  IN  IF ParseFailed(v1.n, v2.n) THEN "VERSION_INVALID"
      ELSE IF v1.major < v2.major THEN "VERSION_OLDER"
      ELSE IF v1.major > v2.major THEN "VERSION_NEWER"
      ELSE IF v1.minor < v2.minor THEN "VERSION_OLDER"
      ELSE IF v1.minor > v2.minor THEN "VERSION_NEWER"
      ELSE IF v1.patch < v2.patch THEN "VERSION_OLDER"
      ELSE IF v1.patch > v2.patch THEN "VERSION_NEWER"
      ELSE "VERSION_SAME"

(***************************************************************************)
(* ota_parse_version_string: skips leading white space and copies the       *)
(* first token (up to white space, the end, or buffer_size - 1 bytes).      *)
(* The result is <<status, parsed_version>>.                                *)
(***************************************************************************)
RECURSIVE TokenEnd(_, _, _, _)
TokenEnd(s, i, len, buffer_size) ==
  IF i <= Len(s) /\ ~IsSpace(s[i]) /\ len < buffer_size - 1
    THEN TokenEnd(s, i + 1, len + 1, buffer_size)
    ELSE i

ota_parse_version_string(version_str, buffer_size) ==
  LET start == SkipSpace(version_str, 1)
      end   == TokenEnd(version_str, start, 0, buffer_size)
      tok   == SubSeq(version_str, start, end - 1)
  IN  IF Len(tok) = 0 THEN <<"SL_STATUS_INVALID_PARAMETER", tok>>
                      ELSE <<"SL_STATUS_OK", tok>>

(***************************************************************************)
(* State.                                                                   *)
(***************************************************************************)
VARIABLES
  build_version,          \* CURRENT_FIRMWARE_VERSION of this build
  ota_manager,            \* static ota_manager_t ota_manager
  ota_task_handle,        \* "NULL" or "task"
  ota_semaphore,          \* [valid, tokens]: NULL, or a semaphore of at most 1 token
  ota_task_running,
  ota_response_received,
  ota_callback_status,
  progress_callback,      \* "NULL" or "fn"
  pc,                     \* position of each context in the code
  op,                     \* public operation each context is running
  ret,                    \* value the operation returned (at pc = "ret")
  dns_retry_count,        \* local of ota_fetch_version_info / ota_download_firmware
  status,                 \* local sl_status_t of the running operation
  version_buffer,         \* local buffer of ota_check_for_updates
  result,                 \* local version_compare_result_t of ota_check_for_updates
  timeout_count,          \* local of ota_download_firmware
  hpc,                    \* position of the transport context in the handler
  hevent,                 \* event the handler was invoked with
  transfer,               \* sl_si91x_http_otaf_v2 has started a transfer
  events,                 \* events delivered for the current transfer
  now,                    \* last reading of the kernel clock, in seconds
  obs,                    \* call this step made to the progress observer
  last_report,            \* kind of the observer's latest call in this transfer
  n100,                   \* calls with progress 100 in this transfer
  dns_attempts,           \* resolver calls made by the running operation
  dns_sleeps,             \* backoff sleeps made by the running operation
  state_observer,         \* argument of the last ota_set_state_callback call
  cert_size,              \* sizeof(aws_starfield_ca) - 1 of this build
  cert_slot,              \* credential in slot OTA_CERTIFICATE_INDEX of the store
  cmp_version1,           \* first argument of an ota_compare_versions call
  cmp_version2,           \* second argument of that call
  cmp_result,             \* what that call returned ("none" before it)
  state_obs,              \* call this step made to the state observer
  starter                 \* [pc, ret]: a second thread calling ota_manager_start_task

vars == <<build_version, ota_manager, ota_task_handle, ota_semaphore,
          ota_task_running, ota_response_received, ota_callback_status,
          progress_callback, pc, op, ret, dns_retry_count, status,
          version_buffer, result, timeout_count, hpc, hevent, transfer,
          events, now, obs, last_report, n100, dns_attempts, dns_sleeps,
          state_observer, state_obs, cert_size, cert_slot, cmp_version1,
          cmp_version2, cmp_result, starter>>

certVars  == <<cert_size, cert_slot>>
cmpVars   == <<cmp_version1, cmp_version2, cmp_result>>
taskVars  == <<ota_task_handle, ota_semaphore, ota_task_running>>
xferVars  == <<ota_response_received, ota_callback_status, hpc, hevent,
               transfer, events>>
dnsVars   == <<dns_retry_count, status, dns_attempts, dns_sleeps>>
localVars == <<dns_retry_count, status, version_buffer, result,
               timeout_count, dns_attempts, dns_sleeps>>

NoCall == [src |-> "none", progress |-> 0, total |-> 0]

\* ota_set_state_callback drops its argument and the call of the state
\* observer in ota_set_state is commented out: no step of the code calls it.
\* state_observer only remembers what the caller asked for.
NoStateCall == [called |-> FALSE, state |-> "IDLE", error |-> "NONE"]

\* A step that calls no observer.
Quiet ==
  /\ obs' = NoCall
  /\ state_obs' = NoStateCall
  /\ UNCHANGED <<last_report, n100>>

\* The second thread outside any call.
StarterIdle == [pc |-> "idle", ret |-> "none"]

NullSemaphore == [valid |-> FALSE, tokens |-> 0]
NewSemaphore  == [valid |-> TRUE, tokens |-> 0]

(***************************************************************************)
(* ota_manager_init: memset, then the four fields and the version.          *)
(***************************************************************************)
InitManagerNoVersion(version) ==
  [current_state      |-> "IDLE",
   last_error         |-> "NONE",
   current_version    |-> <<>>,
   latest_version     |-> <<>>,
   last_check_time    |-> 0,
   download_progress  |-> 0,
   total_size         |-> 0,
   auto_check_enabled |-> TRUE,
   update_available   |-> FALSE]

InitManager(version) ==
  [current_state      |-> "IDLE",
   last_error         |-> "NONE",
   current_version    |-> StrNCopy(version, MAX_VERSION_STRING_LENGTH),
   latest_version     |-> <<>>,
   last_check_time    |-> 0,
   download_progress  |-> 0,
   total_size         |-> 0,
   auto_check_enabled |-> TRUE,
   update_available   |-> FALSE]

\* ota_set_state makes two stores, with no lock around them: every call is
\* two steps, and between them the manager holds the new state with the
\* old error.  ota_manager.current_state = new_state: the first store.
StoreStateUnlessError(m, new_state) ==
  IF m.current_state = "ERROR" THEN m
                               ELSE [m EXCEPT !.current_state = new_state]

StoreState(m, new_state) == [m EXCEPT !.current_state = new_state]

\* ota_manager.last_error = error: the second store of ota_set_state.
StoreErrorSkipped(m, error) == m

StoreError(m, error) == [m EXCEPT !.last_error = error]

\* The program after ota_manager_init of a build with the given version.
InitProgram(version) ==
  /\ build_version = version
  /\ ota_manager = InitManager(build_version)
  /\ ota_task_handle = "NULL"
  /\ ota_semaphore = NewSemaphore
  /\ ota_task_running = FALSE
  /\ ota_response_received = FALSE
  /\ ota_callback_status = "SL_STATUS_OK"
  /\ progress_callback = "NULL"
  /\ pc = [c \in Contexts |-> IF c = "caller" THEN "idle" ELSE "none"]
  /\ op = [c \in Contexts |-> "none"]
  /\ ret = [c \in Contexts |-> "none"]
  /\ dns_retry_count = [c \in Contexts |-> 0]
  /\ status = [c \in Contexts |-> "SL_STATUS_OK"]
  /\ version_buffer = [c \in Contexts |-> <<>>]
  /\ result = [c \in Contexts |-> "none"]
  /\ timeout_count = 0
  /\ hpc = "idle"
  /\ hevent = "none"
  /\ transfer = FALSE
  /\ events = <<>>
  /\ now = 0
  /\ obs = NoCall
  /\ last_report = "none"
  /\ n100 = 0
  /\ dns_attempts = [c \in Contexts |-> 0]
  /\ dns_sleeps = [c \in Contexts |-> 0]
  /\ state_observer = "NULL"
  /\ state_obs = NoStateCall
  /\ starter = StarterIdle

\* The trust anchor ota_load_certificates selects (USE_STARFIELD_CA), and the
\* sizes sizeof(aws_starfield_ca) - 1 can have: 0 for an empty array.
SelectedAnchor == "aws_starfield_ca"
CertSizes == {0, 1, 1468}

\* Before any ota_compare_versions call of the comparison harness.
NoCompare ==
  /\ cmp_version1 = <<>> /\ cmp_version2 = <<>> /\ cmp_result = "none"

\* ota_get_download_progress(&progress, &total) with both pointers given:
\* *progress = ota_manager.download_progress; *total = ota_manager.total_size
ota_get_download_progress(m) == <<m.download_progress, m.total_size>>

\* wifi_ota_init has run: the manager is initialised and the selected anchor
\* sits in the slot.
Init ==
  /\ \E version \in BuildVersions : InitProgram(version)
  /\ cert_size = 1468
  /\ cert_slot = SelectedAnchor
  /\ NoCompare

\* Locals die when the operation returns.
ClearLocals(c) ==
  /\ dns_retry_count' = [dns_retry_count EXCEPT ![c] = 0]
  /\ status' = [status EXCEPT ![c] = "SL_STATUS_OK"]
  /\ version_buffer' = [version_buffer EXCEPT ![c] = <<>>]
  /\ result' = [result EXCEPT ![c] = "none"]
  /\ dns_attempts' = [dns_attempts EXCEPT ![c] = 0]
  /\ dns_sleeps' = [dns_sleeps EXCEPT ![c] = 0]

(***************************************************************************)
(* The scheduler and manual callers never overlap inside                    *)
(* ota_check_for_updates / ota_start_update: the manager state has no lock  *)
(* and the reference relies on this discipline of its callers.              *)
(***************************************************************************)
TaskParked == pc["task"] \in {"none", "entry", "wait", "exit"}
CallerParked == pc["caller"] \in {"idle", "stop_delay"}

\* The caller issues a command on an initialised manager (a failed
\* ota_manager_init is followed by nothing but another ota_manager_init),
\* once the transport has finished handling the events of the last transfer.
CallerMayCall ==
  pc["caller"] = "idle" /\ ota_semaphore.valid /\ hpc = "idle"

(***************************************************************************)
(* ota_check_for_updates, ota_force_check_update, ota_fetch_version_info    *)
(***************************************************************************)
CallCheck ==
  /\ CallerMayCall /\ TaskParked
  /\ pc' = [pc EXCEPT !["caller"] = "chk_entry"]
  /\ op' = [op EXCEPT !["caller"] = "check"]
  /\ Quiet
  /\ UNCHANGED <<starter, build_version, state_observer, certVars, cmpVars, ota_manager, taskVars, xferVars,
                 progress_callback, ret, localVars, now>>

CallForce ==
  /\ CallerMayCall /\ TaskParked
  /\ ota_manager' = [ota_manager EXCEPT !.last_check_time = 0]
  /\ pc' = [pc EXCEPT !["caller"] = "chk_entry"]
  /\ op' = [op EXCEPT !["caller"] = "force"]
  /\ Quiet
  /\ UNCHANGED <<starter, build_version, state_observer, certVars, cmpVars, taskVars, xferVars, progress_callback, ret,
                 localVars, now>>

CheckGate(c) ==
  /\ pc[c] = "chk_entry"
  /\ \E connected \in BOOLEAN :
       IF ~connected
         THEN /\ ota_manager' = StoreState(ota_manager, "ERROR")
              /\ pc' = [pc EXCEPT ![c] = "chk_down_e"]
              /\ UNCHANGED dns_retry_count
         ELSE /\ ota_manager' = StoreState(ota_manager, "CHECKING_VERSION")
              /\ dns_retry_count' =
                   [dns_retry_count EXCEPT ![c] = OTA_MAX_DNS_RETRY_COUNT]
              /\ pc' = [pc EXCEPT ![c] = "chk_enter_e"]
  /\ Quiet
  /\ UNCHANGED <<starter, build_version, state_observer, certVars, cmpVars, taskVars, xferVars,
                 progress_callback, op, ret, status, version_buffer, result,
                 timeout_count, dns_attempts, dns_sleeps, now>>

\* Body of the do-while of ota_fetch_version_info up to the osDelay or the
\* loop test: pc after one resolver call that returned st.
FetchAfterAttempt(st, count) ==
  IF st # "SL_STATUS_OK"
    THEN IF count > 1 THEN [pc |-> "fetch_backoff", count |-> count]
         ELSE [pc |-> IF count - 1 > 0 THEN "fetch_dns" ELSE "fetch_done",
               count |-> count - 1]
    ELSE [pc |-> "fetch_done", count |-> count]

FetchDns(c) ==
  /\ pc[c] = "fetch_dns"
  /\ \E st \in {"SL_STATUS_OK", "DNS_ERROR"} :
       LET n == FetchAfterAttempt(st, dns_retry_count[c])
       IN  /\ status' = [status EXCEPT ![c] = st]
           /\ dns_retry_count' = [dns_retry_count EXCEPT ![c] = n.count]
           /\ pc' = [pc EXCEPT ![c] = n.pc]
  /\ dns_attempts' = [dns_attempts EXCEPT ![c] = @ + 1]
  /\ Quiet
  /\ UNCHANGED <<starter, build_version, state_observer, certVars, cmpVars, ota_manager, taskVars, xferVars,
                 progress_callback, op, ret, version_buffer, result,
                 timeout_count, dns_sleeps, now>>

\* osDelay(2000), dns_retry_count--, while (dns_retry_count > 0)
FetchBackoff(c) ==
  /\ pc[c] = "fetch_backoff"
  /\ dns_sleeps' = [dns_sleeps EXCEPT ![c] = @ + 1]
  /\ dns_retry_count' = [dns_retry_count EXCEPT ![c] = @ - 1]
  /\ pc' = [pc EXCEPT ![c] =
              IF dns_retry_count[c] - 1 > 0 THEN "fetch_dns" ELSE "fetch_done"]
  /\ Quiet
  /\ UNCHANGED <<starter, build_version, state_observer, certVars, cmpVars, ota_manager, taskVars, xferVars,
                 progress_callback, op, ret, status, version_buffer, result,
                 timeout_count, dns_attempts, now>>

\* if (status != SL_STATUS_OK) after ota_fetch_version_info: the check fails
\* before the comparison.
FetchFailedNever(st) == FALSE

FetchFailed(st) == st # "SL_STATUS_OK"

\* End of ota_fetch_version_info: a failed resolution returns the status and
\* ota_check_for_updates records the error; otherwise the token is copied.
\* The locals of the resolution loop are dead from here on.
FetchDone(c) ==
  /\ pc[c] = "fetch_done"
  /\ IF FetchFailed(status[c])
       THEN /\ ota_manager' = StoreState(ota_manager, "ERROR")
            /\ pc' = [pc EXCEPT ![c] = "fetch_fail_e"]
            /\ UNCHANGED version_buffer
       ELSE /\ version_buffer' =
                 [version_buffer EXCEPT
                    ![c] = StrNCopy(ServedToken, MAX_VERSION_STRING_LENGTH)]
            /\ pc' = [pc EXCEPT ![c] = "chk_parse"]
            /\ UNCHANGED ota_manager
  /\ dns_retry_count' = [dns_retry_count EXCEPT ![c] = 0]
  /\ dns_attempts' = [dns_attempts EXCEPT ![c] = 0]
  /\ dns_sleeps' = [dns_sleeps EXCEPT ![c] = 0]
  /\ Quiet
  /\ UNCHANGED <<starter, build_version, state_observer, certVars, cmpVars, taskVars, xferVars,
                 progress_callback, op, ret, status, result, timeout_count,
                 now>>

\* update_available as ota_check_for_updates sets it from the comparison of
\* the running version with the served one.
AvailableAfterEitherWay(cmp) == cmp \in {"VERSION_OLDER", "VERSION_NEWER"}

AvailableAfter(cmp) == cmp = "VERSION_OLDER"

CheckParse(c) ==
  /\ pc[c] = "chk_parse"
  /\ LET p == ota_parse_version_string(version_buffer[c],
                                       MAX_VERSION_STRING_LENGTH)
         cmp == ota_compare_versions(ota_manager.current_version, p[2])
     IN  IF p[1] # "SL_STATUS_OK"
           THEN /\ ota_manager' = StoreState(ota_manager, "ERROR")
                /\ status' = [status EXCEPT ![c] = p[1]]
                /\ pc' = [pc EXCEPT ![c] = "parse_fail_e"]
                /\ UNCHANGED result
           ELSE /\ ota_manager' =
                     [ota_manager EXCEPT
                        !.latest_version =
                           StrNCopy(p[2], MAX_VERSION_STRING_LENGTH),
                        !.update_available = AvailableAfter(cmp)]
                /\ result' = [result EXCEPT ![c] = cmp]
                /\ pc' = [pc EXCEPT ![c] = "chk_state"]
                /\ UNCHANGED status
  /\ Quiet
  /\ UNCHANGED <<starter, build_version, state_observer, certVars, cmpVars, taskVars, xferVars,
                 progress_callback, op, ret, dns_retry_count, dns_attempts,
                 dns_sleeps, version_buffer, timeout_count, now>>

\* State and error ota_check_for_updates records for each comparison result.
StateAfterNoIdle(cmp) ==
  IF cmp = "VERSION_INVALID" THEN <<"ERROR", "VERSION_PARSE">>
  ELSE IF cmp = "VERSION_OLDER" THEN <<"CHECKING_VERSION", "NONE">>
  ELSE <<"IDLE", "NONE">>

StateAfter(cmp) ==
  IF cmp = "VERSION_INVALID" THEN <<"ERROR", "VERSION_PARSE">>
                             ELSE <<"IDLE", "NONE">>

CheckSetState(c) ==
  /\ pc[c] = "chk_state"
  /\ ota_manager' = StoreState(ota_manager, StateAfter(result[c])[1])
  /\ pc' = [pc EXCEPT ![c] = "chk_state_e"]
  /\ Quiet
  /\ UNCHANGED <<starter, build_version, state_observer, certVars, cmpVars, taskVars, xferVars,
                 progress_callback, op, ret, localVars, now>>

\* ota_manager.last_check_time = ota_get_current_time_seconds(); return OK
CheckTime(c) ==
  /\ pc[c] = "chk_time"
  /\ \E t \in Times :
       /\ t >= now
       /\ now' = t
       /\ ota_manager' = [ota_manager EXCEPT !.last_check_time = t]
  /\ ret' = [ret EXCEPT ![c] = "SL_STATUS_OK"]
  /\ pc' = [pc EXCEPT ![c] = "ret"]
  /\ Quiet
  /\ UNCHANGED <<starter, build_version, state_observer, certVars, cmpVars, taskVars, xferVars, progress_callback, op,
                 localVars>>

\* The caller takes the returned value; the frame is gone, and so is the
\* transfer the operation may have started.
Return ==
  /\ pc["caller"] = "ret"
  /\ pc' = [pc EXCEPT !["caller"] = "idle"]
  /\ op' = [op EXCEPT !["caller"] = "none"]
  /\ ret' = [ret EXCEPT !["caller"] = "none"]
  /\ ClearLocals("caller")
  /\ timeout_count' = 0
  /\ transfer' = FALSE
  /\ events' = <<>>
  /\ obs' = NoCall
  /\ state_obs' = NoStateCall
  /\ last_report' = "none"
  /\ n100' = 0
  /\ UNCHANGED <<starter, build_version, state_observer, certVars, cmpVars, ota_manager, taskVars, ota_response_received,
                 ota_callback_status, hpc, hevent, progress_callback, now>>

(***************************************************************************)
(* ota_start_update and ota_download_firmware                               *)
(***************************************************************************)
CallStart ==
  /\ CallerMayCall /\ TaskParked
  /\ pc' = [pc EXCEPT !["caller"] = "start_entry"]
  /\ op' = [op EXCEPT !["caller"] = "start"]
  /\ Quiet
  /\ UNCHANGED <<starter, build_version, state_observer, certVars, cmpVars, ota_manager, taskVars, xferVars,
                 progress_callback, ret, localVars, now>>

\* if (!ota_manager.update_available) return SL_STATUS_NOT_AVAILABLE;
StartRefusedInverted(m) == m.update_available

StartRefused(m) == ~m.update_available

StartGate ==
  /\ pc["caller"] = "start_entry"
  /\ IF StartRefused(ota_manager)
       THEN /\ ret' = [ret EXCEPT !["caller"] = "SL_STATUS_NOT_AVAILABLE"]
            /\ pc' = [pc EXCEPT !["caller"] = "ret"]
            /\ UNCHANGED <<ota_manager, dns_retry_count>>
       ELSE \E connected \in BOOLEAN :
              /\ IF ~connected
                   THEN /\ ota_manager' = StoreState(ota_manager, "ERROR")
                        /\ pc' = [pc EXCEPT !["caller"] = "start_down_e"]
                        /\ UNCHANGED dns_retry_count
                   ELSE /\ ota_manager' =
                             StoreState(ota_manager, "DOWNLOADING")
                        /\ dns_retry_count' =
                             [dns_retry_count EXCEPT
                                !["caller"] = OTA_MAX_DNS_RETRY_COUNT]
                        /\ pc' = [pc EXCEPT !["caller"] = "start_enter_e"]
              /\ UNCHANGED ret
  /\ Quiet
  /\ UNCHANGED <<starter, build_version, state_observer, certVars, cmpVars, taskVars, xferVars,
                 progress_callback, op, status, version_buffer, result,
                 timeout_count, dns_attempts, dns_sleeps, now>>

\* do-while of ota_download_firmware: the loop test that follows
\* dns_retry_count--.
DownloadLoopTestNoStop(st, count) ==
  IF count # 0 THEN "dl_dns" ELSE "dl_resolved"

DownloadLoopTest(st, count) ==
  IF count # 0 /\ st # "SL_STATUS_OK" THEN "dl_dns" ELSE "dl_resolved"

DownloadAfterAttempt(st, count) ==
  IF st # "SL_STATUS_OK" /\ count > 1
    THEN [pc |-> "dl_backoff", count |-> count]
    ELSE [pc |-> DownloadLoopTest(st, count - 1), count |-> count - 1]

DlDns ==
  /\ pc["caller"] = "dl_dns"
  /\ \E st \in {"SL_STATUS_OK", "DNS_ERROR"} :
       LET n == DownloadAfterAttempt(st, dns_retry_count["caller"])
       IN  /\ status' = [status EXCEPT !["caller"] = st]
           /\ dns_retry_count' = [dns_retry_count EXCEPT !["caller"] = n.count]
           /\ pc' = [pc EXCEPT !["caller"] = n.pc]
  /\ dns_attempts' = [dns_attempts EXCEPT !["caller"] = @ + 1]
  /\ Quiet
  /\ UNCHANGED <<starter, build_version, state_observer, certVars, cmpVars, ota_manager, taskVars, xferVars,
                 progress_callback, op, ret, version_buffer, result,
                 timeout_count, dns_sleeps, now>>

\* osDelay(1000), dns_retry_count--, loop test
DlBackoff ==
  /\ pc["caller"] = "dl_backoff"
  /\ dns_sleeps' = [dns_sleeps EXCEPT !["caller"] = @ + 1]
  /\ dns_retry_count' = [dns_retry_count EXCEPT !["caller"] = @ - 1]
  /\ pc' = [pc EXCEPT !["caller"] =
              DownloadLoopTest(status["caller"], dns_retry_count["caller"] - 1)]
  /\ Quiet
  /\ UNCHANGED <<starter, build_version, state_observer, certVars, cmpVars, ota_manager, taskVars, xferVars,
                 progress_callback, op, ret, status, version_buffer, result,
                 timeout_count, dns_attempts, now>>

\* After the loop: a failed resolution returns; otherwise the handler is
\* registered with sl_wifi_set_callback, which may be refused.  The locals
\* of the resolution loop are dead from here on.
DlResolved ==
  /\ pc["caller"] = "dl_resolved"
  /\ IF status["caller"] # "SL_STATUS_OK"
       THEN /\ pc' = [pc EXCEPT !["caller"] = "dl_return"]
            /\ UNCHANGED status
       ELSE \E st \in {"SL_STATUS_OK", "CALLBACK_ERROR"} :
              /\ status' = [status EXCEPT !["caller"] = st]
              /\ pc' = [pc EXCEPT !["caller"] =
                          IF st = "SL_STATUS_OK" THEN "dl_reset" ELSE "dl_return"]
  /\ dns_retry_count' = [dns_retry_count EXCEPT !["caller"] = 0]
  /\ dns_attempts' = [dns_attempts EXCEPT !["caller"] = 0]
  /\ dns_sleeps' = [dns_sleeps EXCEPT !["caller"] = 0]
  /\ Quiet
  /\ UNCHANGED <<starter, build_version, state_observer, certVars, cmpVars, ota_manager, taskVars, xferVars,
                 progress_callback, op, ret, version_buffer, result,
                 timeout_count, now>>

\* ota_response_received = false; ota_callback_status = SL_STATUS_FAIL
DlReset ==
  /\ pc["caller"] = "dl_reset"
  /\ ota_response_received' = FALSE
  /\ ota_callback_status' = "SL_STATUS_FAIL"
  /\ pc' = [pc EXCEPT !["caller"] = "dl_start"]
  /\ Quiet
  /\ UNCHANGED <<starter, build_version, state_observer, certVars, cmpVars, ota_manager, taskVars, hpc, hevent, transfer,
                 events, progress_callback, op, ret, localVars, now>>

\* if (status != SL_STATUS_OK) return status: whether the wait is entered.
TransferStartedAlways(st) == TRUE

TransferStarted(st) == st = "SL_STATUS_OK"

\* sl_si91x_http_otaf_v2: a refused start returns at once; otherwise the
\* transfer is in flight and the wait begins with timeout_count = 0.
DlStart ==
  /\ pc["caller"] = "dl_start"
  /\ \E st \in {"SL_STATUS_OK", "OTAF_ERROR"} :
       /\ status' = [status EXCEPT !["caller"] = st]
       /\ IF TransferStarted(st)
            THEN /\ transfer' = TRUE
                 /\ events' = <<>>
                 /\ last_report' = "none"
                 /\ n100' = 0
                 /\ pc' = [pc EXCEPT !["caller"] = "dl_wait"]
            ELSE /\ pc' = [pc EXCEPT !["caller"] = "dl_return"]
                 /\ UNCHANGED <<transfer, events, last_report, n100>>
  /\ timeout_count' = 0
  /\ obs' = NoCall
  /\ state_obs' = NoStateCall
  /\ UNCHANGED <<starter, build_version, state_observer, certVars, cmpVars, ota_manager, taskVars, ota_response_received,
                 ota_callback_status, hpc, hevent, progress_callback, op, ret,
                 dns_retry_count, version_buffer, result, dns_attempts,
                 dns_sleeps, now>>

max_timeout == OTA_TIMEOUT \div 1000

\* while (!ota_response_received && timeout_count < max_timeout)
DlWait ==
  /\ pc["caller"] = "dl_wait"
  /\ pc' = [pc EXCEPT !["caller"] =
              IF ~ota_response_received /\ timeout_count < max_timeout
                THEN "dl_poll" ELSE "dl_after"]
  /\ Quiet
  /\ UNCHANGED <<starter, build_version, state_observer, certVars, cmpVars, ota_manager, taskVars, xferVars,
                 progress_callback, op, ret, localVars, now>>

\* estimated_progress as the waiter computes it; timeout_count * 100 is at
\* most max_timeout * 100, far below the uint32_t range.
EstimatedProgressUncapped(count) == (count * 100) \div max_timeout

EstimatedProgress(count) ==
  LET estimated_progress == (count * 100) \div max_timeout
  IN  IF estimated_progress > 95 THEN 95 ELSE estimated_progress

\* The waiter reports on every fifth poll.
ReportDue(count) == count % 5 = 0

\* timeout_count++
PollCountStuck(count) == count

PollCount(count) == count + 1

\* Loop body: osDelay(1000), timeout_count++, progress estimate.
DlPoll ==
  /\ pc["caller"] = "dl_poll"
  /\ timeout_count' = PollCount(timeout_count)
  /\ IF progress_callback # "NULL" /\ ReportDue(PollCount(timeout_count))
       THEN /\ obs' = [src |-> "waiter",
                       progress |-> EstimatedProgress(PollCount(timeout_count)),
                       total |-> 100]
            /\ last_report' = "estimate"
       ELSE /\ obs' = NoCall
            /\ UNCHANGED last_report
  /\ pc' = [pc EXCEPT !["caller"] = "dl_wait"]
  /\ state_obs' = NoStateCall
  /\ UNCHANGED <<starter, build_version, state_observer, certVars, cmpVars, ota_manager, taskVars, xferVars,
                 progress_callback, op, ret, dns_retry_count, status,
                 version_buffer, result, dns_attempts, dns_sleeps, now, n100>>

\* if (!ota_response_received) return SL_STATUS_TIMEOUT;
\* timeout_count is dead once the loop is left.
DlAfter ==
  /\ pc["caller"] = "dl_after"
  /\ IF ~ota_response_received
       THEN /\ status' = [status EXCEPT !["caller"] = "SL_STATUS_TIMEOUT"]
            /\ pc' = [pc EXCEPT !["caller"] = "dl_return"]
       ELSE /\ pc' = [pc EXCEPT !["caller"] = "dl_status"]
            /\ UNCHANGED status
  /\ timeout_count' = 0
  /\ Quiet
  /\ UNCHANGED <<starter, build_version, state_observer, certVars, cmpVars, ota_manager, taskVars, xferVars,
                 progress_callback, op, ret, dns_retry_count, version_buffer,
                 result, dns_attempts, dns_sleeps, now>>

\* return ota_callback_status;
DlStatus ==
  /\ pc["caller"] = "dl_status"
  /\ status' = [status EXCEPT !["caller"] = ota_callback_status]
  /\ pc' = [pc EXCEPT !["caller"] = "dl_return"]
  /\ Quiet
  /\ UNCHANGED <<starter, build_version, state_observer, certVars, cmpVars, ota_manager, taskVars, xferVars,
                 progress_callback, op, ret, dns_retry_count, version_buffer,
                 result, timeout_count, dns_attempts, dns_sleeps, now>>

\* Error kind ota_start_update records for a failed download.
DownloadErrorKind(st) == "DOWNLOAD_FAILED"

\* ota_start_update after ota_download_firmware returned.
StartOutcome ==
  /\ pc["caller"] = "dl_return"
  /\ IF status["caller"] # "SL_STATUS_OK"
       THEN /\ ota_manager' = StoreState(ota_manager, "ERROR")
            /\ pc' = [pc EXCEPT !["caller"] = "dl_fail_e"]
       ELSE /\ ota_manager' = StoreState(ota_manager, "INSTALLING")
            /\ pc' = [pc EXCEPT !["caller"] = "install_e"]
  /\ Quiet
  /\ UNCHANGED <<starter, build_version, state_observer, certVars, cmpVars, taskVars, xferVars,
                 progress_callback, op, ret, localVars, now>>

\* osDelay(5000); ota_set_state(OTA_STATE_COMPLETE, OTA_ERROR_NONE)
StartInstall ==
  /\ pc["caller"] = "start_install"
  /\ ota_manager' = StoreState(ota_manager, "COMPLETE")
  /\ pc' = [pc EXCEPT !["caller"] = "complete_e"]
  /\ Quiet
  /\ UNCHANGED <<starter, build_version, state_observer, certVars, cmpVars, taskVars, xferVars,
                 progress_callback, op, ret, localVars, now>>

(***************************************************************************)
(* The second store of each ota_set_state call, and what the caller of      *)
(* ota_set_state does next: go on, or return a value.                       *)
(***************************************************************************)
\* For the position after the first store: the error the call was given,
\* the position the code goes on from, and the value it returns there
\* ("none" when it does not return).
SetStateSite(c) ==
  CASE pc[c] = "chk_down_e" ->
         [error |-> "NETWORK", pc |-> "ret", ret |-> "SL_STATUS_NETWORK_DOWN"]
    [] pc[c] = "chk_enter_e" ->
         [error |-> "NONE", pc |-> "fetch_dns", ret |-> "none"]
    [] pc[c] = "fetch_fail_e" ->
         [error |-> "VERSION_PARSE", pc |-> "ret", ret |-> status[c]]
    [] pc[c] = "parse_fail_e" ->
         [error |-> "VERSION_PARSE", pc |-> "ret", ret |-> status[c]]
    [] pc[c] = "chk_state_e" ->
         [error |-> StateAfter(result[c])[2], pc |-> "chk_time", ret |-> "none"]
    [] pc[c] = "start_down_e" ->
         [error |-> "NETWORK", pc |-> "ret", ret |-> "SL_STATUS_NETWORK_DOWN"]
    [] pc[c] = "start_enter_e" ->
         [error |-> "NONE", pc |-> "dl_dns", ret |-> "none"]
    [] pc[c] = "dl_fail_e" ->
         [error |-> DownloadErrorKind(status[c]), pc |-> "ret",
          ret |-> status[c]]
    [] pc[c] = "install_e" ->
         [error |-> "NONE", pc |-> "start_install", ret |-> "none"]
    [] pc[c] = "complete_e" ->
         [error |-> "NONE", pc |-> "ret", ret |-> "SL_STATUS_OK"]

SecondStorePcs ==
  {"chk_down_e", "chk_enter_e", "fetch_fail_e", "parse_fail_e", "chk_state_e",
   "start_down_e", "start_enter_e", "dl_fail_e", "install_e", "complete_e"}

SetStateSecond(c) ==
  /\ pc[c] \in SecondStorePcs
  /\ ota_manager' = StoreError(ota_manager, SetStateSite(c).error)
  /\ pc' = [pc EXCEPT ![c] = SetStateSite(c).pc]
  /\ ret' = IF SetStateSite(c).ret = "none"
             THEN ret
             ELSE [ret EXCEPT ![c] = SetStateSite(c).ret]
  /\ Quiet
  /\ UNCHANGED <<starter, build_version, state_observer, certVars, cmpVars, taskVars, xferVars,
                 progress_callback, op, localVars, now>>

(***************************************************************************)
(* ota_fw_update_response_handler, run by the transport's event context.    *)
(***************************************************************************)
\* The transport delivers the events of a transfer while the
\* ota_start_update that started it is running, one handler call at a time.
Deliver ==
  /\ transfer /\ hpc = "idle" /\ Len(events) < MaxEvents
  /\ \E kind \in {"ok", "fail"} :
       /\ events' = Append(events, kind)
       /\ hevent' = kind
  /\ hpc' = "h_flag"
  /\ Quiet
  /\ UNCHANGED <<starter, build_version, state_observer, certVars, cmpVars, ota_manager, taskVars, ota_response_received,
                 ota_callback_status, transfer, progress_callback, pc, op, ret,
                 localVars, now>>

\* ota_response_received = true
HandlerFlag ==
  /\ hpc = "h_flag"
  /\ ota_response_received' = TRUE
  /\ hpc' = "h_status"
  /\ Quiet
  /\ UNCHANGED <<starter, build_version, state_observer, certVars, cmpVars, ota_manager, taskVars, ota_callback_status,
                 hevent, transfer, events, progress_callback, pc, op, ret,
                 localVars, now>>

\* The outcome the handler records: SL_STATUS_FAIL when
\* SL_WIFI_CHECK_IF_EVENT_FAILED(event), SL_STATUS_OK otherwise.
HandlerOutcomeAlwaysOk(kind) == "SL_STATUS_OK"

HandlerOutcome(kind) ==
  IF kind = "fail" THEN "SL_STATUS_FAIL" ELSE "SL_STATUS_OK"

\* ota_callback_status = SL_STATUS_FAIL / SL_STATUS_OK
HandlerStatus ==
  /\ hpc = "h_status"
  /\ ota_callback_status' = HandlerOutcome(hevent)
  /\ hpc' = "h_tail"
  /\ Quiet
  /\ UNCHANGED <<starter, build_version, state_observer, certVars, cmpVars, ota_manager, taskVars, ota_response_received,
                 hevent, transfer, events, progress_callback, pc, op, ret,
                 localVars, now>>

\* Whether the handler calls the observer with (100, 100) for this event.
HandlerReportsAnyEvent(kind, callback) == callback # "NULL"

HandlerReports(kind, callback) == kind = "ok" /\ callback # "NULL"

\* Rest of the handler: a failed event returns; a successful one runs
\* if (progress_callback != NULL) progress_callback(100, 100) and returns.
HandlerReport ==
  /\ hpc = "h_tail"
  /\ IF HandlerReports(hevent, progress_callback)
       THEN /\ obs' = [src |-> "handler", progress |-> 100, total |-> 100]
            /\ last_report' = "full"
            /\ n100' = n100 + 1
       ELSE /\ obs' = NoCall
            /\ UNCHANGED <<last_report, n100>>
  /\ hpc' = "idle"
  /\ hevent' = "none"
  /\ state_obs' = NoStateCall
  /\ UNCHANGED <<starter, build_version, state_observer, certVars, cmpVars, ota_manager, taskVars, ota_response_received,
                 ota_callback_status, transfer, events, progress_callback, pc,
                 op, ret, localVars, now>>

(***************************************************************************)
(* Task lifecycle and the scheduler loop ota_task_main.                     *)
(***************************************************************************)
\* if (ota_task_handle != NULL) return SL_STATUS_ALREADY_EXISTS;
StartTaskRefusedNever(handle) == FALSE

StartTaskRefused(handle) == handle # "NULL"

ota_manager_start_task ==
  /\ CallerMayCall
  /\ IF StartTaskRefused(ota_task_handle)
       THEN /\ ret' = [ret EXCEPT !["caller"] = "SL_STATUS_ALREADY_EXISTS"]
            /\ pc' = [pc EXCEPT !["caller"] = "ret"]
            /\ UNCHANGED <<ota_task_handle, ota_task_running>>
       ELSE \E created \in BOOLEAN :
              IF created
                THEN /\ ota_task_running' = TRUE
                     /\ ota_task_handle' = "task"
                     /\ ret' = [ret EXCEPT !["caller"] = "SL_STATUS_OK"]
                     /\ pc' = [pc EXCEPT !["caller"] = "ret", !["task"] = "entry"]
                ELSE /\ ota_task_running' = FALSE
                     /\ ota_task_handle' = "NULL"
                     /\ ret' = [ret EXCEPT
                                  !["caller"] = "SL_STATUS_ALLOCATION_FAILED"]
                     /\ pc' = [pc EXCEPT !["caller"] = "ret"]
  /\ op' = [op EXCEPT !["caller"] = "start_task"]
  /\ Quiet
  /\ UNCHANGED <<starter, build_version, state_observer, certVars, cmpVars, ota_manager, ota_semaphore, xferVars,
                 progress_callback, localVars, now>>

\* osSemaphoreRelease on a semaphore created with max_count 1
SemaphoreRelease(sem) ==
  IF sem.valid THEN [sem EXCEPT !.tokens = Min(sem.tokens + 1, 1)] ELSE sem

\* ota_manager_stop_task up to osDelay(1000)
ota_manager_stop_task ==
  /\ CallerMayCall
  /\ IF ota_task_handle = "NULL"
       THEN /\ ret' = [ret EXCEPT !["caller"] = "SL_STATUS_NOT_INITIALIZED"]
            /\ pc' = [pc EXCEPT !["caller"] = "ret"]
            /\ UNCHANGED <<ota_task_running, ota_semaphore>>
       ELSE /\ ota_task_running' = FALSE
            /\ ota_semaphore' = SemaphoreRelease(ota_semaphore)
            /\ pc' = [pc EXCEPT !["caller"] = "stop_delay"]
            /\ UNCHANGED ret
  /\ op' = [op EXCEPT !["caller"] = "stop_task"]
  /\ Quiet
  /\ UNCHANGED <<starter, build_version, state_observer, certVars, cmpVars, ota_manager, ota_task_handle, xferVars,
                 progress_callback, localVars, now>>

\* After the delay: a task that has not exited is terminated where it is.
StopTaskFinish ==
  /\ pc["caller"] = "stop_delay"
  /\ IF ota_task_handle # "NULL"
       THEN /\ ota_task_handle' = "NULL"
            /\ pc' = [pc EXCEPT !["caller"] = "ret", !["task"] = "none"]
            /\ op' = [op EXCEPT !["task"] = "none"]
            /\ ret' = [ret EXCEPT !["caller"] = "SL_STATUS_OK",
                                  !["task"] = "none"]
            /\ ClearLocals("task")
       ELSE /\ pc' = [pc EXCEPT !["caller"] = "ret"]
            /\ ret' = [ret EXCEPT !["caller"] = "SL_STATUS_OK"]
            /\ UNCHANGED <<ota_task_handle, op, dns_retry_count, status,
                           version_buffer, result, dns_attempts, dns_sleeps>>
  /\ Quiet
  /\ UNCHANGED <<starter, build_version, state_observer, certVars, cmpVars, ota_manager, ota_semaphore, ota_task_running,
                 xferVars, progress_callback, timeout_count, now>>

\* while (ota_task_running)
TaskLoop ==
  /\ pc["task"] = "entry"
  /\ pc' = [pc EXCEPT !["task"] = IF ota_task_running THEN "wait" ELSE "exit"]
  /\ Quiet
  /\ UNCHANGED <<starter, build_version, state_observer, certVars, cmpVars, ota_manager, taskVars, xferVars,
                 progress_callback, op, ret, localVars, now>>

\* osSemaphoreAcquire(ota_semaphore, VERSION_CHECK_INTERVAL * 1000) returns:
\* with the token when there is one, otherwise on the timeout.
TaskAcquire ==
  /\ pc["task"] = "wait"
  /\ ota_semaphore' =
       IF ota_semaphore.valid /\ ota_semaphore.tokens > 0
         THEN [ota_semaphore EXCEPT !.tokens = @ - 1] ELSE ota_semaphore
  /\ pc' = [pc EXCEPT !["task"] = "woken"]
  /\ Quiet
  /\ UNCHANGED <<starter, build_version, state_observer, certVars, cmpVars, ota_manager, ota_task_handle, ota_task_running,
                 xferVars, progress_callback, op, ret, localVars, now>>

\* The wait ends while no caller is inside an operation and the transport
\* is at rest (the discipline above).
TaskWake == CallerParked /\ hpc = "idle" /\ TaskAcquire

\* ota_should_check_update with the clock reading t.  The difference is a
\* uint32_t: below zero it wraps to a value far above the interval.
ota_should_check_update_always(t, last_check_time) == TRUE

ota_should_check_update(t, last_check_time) ==
  IF t >= last_check_time
    THEN t - last_check_time >= VERSION_CHECK_INTERVAL
    ELSE TRUE

\* if (!ota_task_running) break;
TaskBreaksNever(running) == FALSE

TaskBreaks(running) == ~running

\* Left operand of the && that guards the automatic check; the clock is
\* read only when it is true.
AutoCheckGateOpen(m) == TRUE

AutoCheckGate(m) == m.auto_check_enabled

\* End of the loop body: with an update available in IDLE the task only
\* logs "waiting for user action" and goes back to the loop test.
TaskStartsUpdate(m) ==
  IF m.update_available /\ m.current_state = "IDLE"
    THEN "start_entry" ELSE "entry"

TaskOnUpdateAvailable(m) == "entry"

\* if (!ota_task_running) break;
\* if (auto_check_enabled && ota_should_check_update()) ota_check_for_updates();
TaskDecide ==
  /\ pc["task"] = "woken"
  /\ IF TaskBreaks(ota_task_running)
       THEN /\ pc' = [pc EXCEPT !["task"] = "exit"]
            /\ UNCHANGED <<now, op>>
       ELSE IF ~AutoCheckGate(ota_manager)
         THEN /\ pc' = [pc EXCEPT !["task"] = TaskOnUpdateAvailable(ota_manager)]
              /\ UNCHANGED <<now, op>>
         ELSE \E t \in Times :
                /\ t >= now
                /\ now' = t
                /\ IF ota_should_check_update(t, ota_manager.last_check_time)
                     THEN /\ pc' = [pc EXCEPT !["task"] = "chk_entry"]
                          /\ op' = [op EXCEPT !["task"] = "check"]
                     ELSE /\ pc' = [pc EXCEPT
                                     !["task"] = TaskOnUpdateAvailable(ota_manager)]
                          /\ UNCHANGED op
  /\ Quiet
  /\ UNCHANGED <<starter, build_version, state_observer, certVars, cmpVars, ota_manager, taskVars, xferVars,
                 progress_callback, ret, localVars>>

\* ota_check_for_updates returned to the loop; its value is dropped.
TaskAfterCheck ==
  /\ pc["task"] = "ret"
  /\ pc' = [pc EXCEPT !["task"] = TaskOnUpdateAvailable(ota_manager)]
  /\ op' = [op EXCEPT !["task"] = "none"]
  /\ ret' = [ret EXCEPT !["task"] = "none"]
  /\ ClearLocals("task")
  /\ Quiet
  /\ UNCHANGED <<starter, build_version, state_observer, certVars, cmpVars, ota_manager, taskVars, xferVars,
                 progress_callback, timeout_count, now>>

\* ota_task_handle = NULL; the thread function returns.
TaskExit ==
  /\ pc["task"] = "exit"
  /\ ota_task_handle' = "NULL"
  /\ pc' = [pc EXCEPT !["task"] = "none"]
  /\ Quiet
  /\ UNCHANGED <<starter, build_version, state_observer, certVars, cmpVars, ota_manager, ota_semaphore, ota_task_running,
                 xferVars, progress_callback, op, ret, localVars, now>>

(***************************************************************************)
(* ota_manager_init and the setters.                                        *)
(***************************************************************************)
\* Called again only with the task stopped.
ota_manager_init ==
  /\ pc["caller"] = "idle" /\ hpc = "idle" /\ ota_task_handle = "NULL"
  /\ ota_manager' = InitManager(build_version)
  /\ \E allocated \in BOOLEAN :
       /\ ota_semaphore' = IF allocated THEN NewSemaphore ELSE NullSemaphore
       /\ ret' = [ret EXCEPT !["caller"] =
                    IF allocated THEN "SL_STATUS_OK"
                                 ELSE "SL_STATUS_ALLOCATION_FAILED"]
  /\ pc' = [pc EXCEPT !["caller"] = "ret"]
  /\ op' = [op EXCEPT !["caller"] = "init"]
  /\ Quiet
  /\ UNCHANGED <<starter, build_version, state_observer, certVars, cmpVars, ota_task_handle, ota_task_running, xferVars,
                 progress_callback, localVars, now>>

ota_set_progress_callback ==
  /\ CallerMayCall
  /\ \E callback \in {"NULL", "fn"} : progress_callback' = callback
  /\ Quiet
  /\ UNCHANGED <<starter, build_version, state_observer, certVars, cmpVars, ota_manager, taskVars, xferVars, pc, op, ret,
                 localVars, now>>

\* ota_set_state_callback(callback): UNUSED_PARAMETER(callback)
ota_set_state_callback ==
  /\ CallerMayCall
  /\ \E callback \in {"NULL", "fn"} : state_observer' = callback
  /\ Quiet
  /\ UNCHANGED <<starter, build_version, certVars, cmpVars, ota_manager, taskVars,
                 xferVars, progress_callback, pc, op, ret, localVars, now>>

ota_set_auto_check ==
  /\ CallerMayCall
  /\ \E enable \in BOOLEAN :
       ota_manager' = [ota_manager EXCEPT !.auto_check_enabled = enable]
  /\ Quiet
  /\ UNCHANGED <<starter, build_version, state_observer, certVars, cmpVars, taskVars, xferVars, progress_callback, pc, op,
                 ret, localVars, now>>

(***************************************************************************)
(* Specification.                                                           *)
(***************************************************************************)
(***************************************************************************)
(* ota_load_certificates, on the caller's context, and the credential       *)
(* store behind sl_net_delete_credential / sl_net_set_credential.           *)
(***************************************************************************)
CallLoad ==
  /\ pc["caller"] = "idle"
  /\ pc' = [pc EXCEPT !["caller"] = "load_entry"]
  /\ op' = [op EXCEPT !["caller"] = "load"]
  /\ Quiet
  /\ UNCHANGED <<starter, build_version, state_observer, certVars, cmpVars,
                 ota_manager, taskVars, xferVars, progress_callback, ret,
                 localVars, now>>

\* if (cert_data == NULL || cert_size == 0) return SL_STATUS_NULL_POINTER;
CertMissingNever(cert_data, size) == FALSE

CertMissing(cert_data, size) == cert_data = "NULL" \/ size = 0

LoadCheck ==
  /\ pc["caller"] = "load_entry"
  /\ IF CertMissing(SelectedAnchor, cert_size)
       THEN /\ ret' = [ret EXCEPT !["caller"] = "SL_STATUS_NULL_POINTER"]
            /\ pc' = [pc EXCEPT !["caller"] = "ret"]
       ELSE /\ pc' = [pc EXCEPT !["caller"] = "load_clear"]
            /\ UNCHANGED ret
  /\ Quiet
  /\ UNCHANGED <<starter, build_version, state_observer, certVars, cmpVars,
                 ota_manager, taskVars, xferVars, progress_callback, op,
                 localVars, now>>

\* What sl_net_delete_credential can return for a slot: nothing to delete is
\* SL_STATUS_NOT_FOUND, a credential is deleted or the store fails.
DeleteOutcomes(slot) ==
  IF slot = "none" THEN {"SL_STATUS_NOT_FOUND", "SL_STATUS_FAIL"}
                   ELSE {"SL_STATUS_OK", "SL_STATUS_FAIL"}

\* if (status != SL_STATUS_OK && status != SL_STATUS_NOT_FOUND): a warning is
\* printed and the load goes on.
LoadGoesOnOnlyIfCleared(st) == st = "SL_STATUS_OK"

LoadGoesOn(st) == TRUE

\* status = sl_net_delete_credential(slot OTA_CERTIFICATE_INDEX)
LoadClear ==
  /\ pc["caller"] = "load_clear"
  /\ \E st \in DeleteOutcomes(cert_slot) :
       /\ status' = [status EXCEPT !["caller"] = st]
       /\ cert_slot' = IF st = "SL_STATUS_OK" THEN "none" ELSE cert_slot
       /\ IF LoadGoesOn(st)
            THEN /\ pc' = [pc EXCEPT !["caller"] = "load_set"]
                 /\ UNCHANGED ret
            ELSE /\ pc' = [pc EXCEPT !["caller"] = "ret"]
                 /\ ret' = [ret EXCEPT !["caller"] = st]
  /\ Quiet
  /\ UNCHANGED <<starter, build_version, state_observer, cert_size, cmpVars,
                 ota_manager, taskVars, xferVars, progress_callback, op,
                 dns_retry_count, version_buffer, result, timeout_count,
                 dns_attempts, dns_sleeps, now>>

\* What sl_net_set_credential can return.
SetOutcomes ==
  {"SL_STATUS_OK", "SL_STATUS_INVALID_PARAMETER",
   "SL_STATUS_ALLOCATION_FAILED", "SL_STATUS_INVALID_CREDENTIALS"}

\* status = sl_net_set_credential(slot OTA_CERTIFICATE_INDEX, cert_data,
\* cert_size); if (status != SL_STATUS_OK) return status; return SL_STATUS_OK
LoadSet ==
  /\ pc["caller"] = "load_set"
  /\ \E st \in SetOutcomes :
       /\ status' = [status EXCEPT !["caller"] = st]
       /\ cert_slot' = IF st = "SL_STATUS_OK" THEN SelectedAnchor
                                              ELSE cert_slot
       /\ ret' = [ret EXCEPT !["caller"] = st]
  /\ pc' = [pc EXCEPT !["caller"] = "ret"]
  /\ Quiet
  /\ UNCHANGED <<starter, build_version, state_observer, cert_size, cmpVars,
                 ota_manager, taskVars, xferVars, progress_callback, op,
                 dns_retry_count, version_buffer, result, timeout_count,
                 dns_attempts, dns_sleeps, now>>

(***************************************************************************)
(* One ota_compare_versions call on two given strings.                      *)
(***************************************************************************)
Compare ==
  /\ cmp_result = "none"
  /\ cmp_result' = ota_compare_versions(cmp_version1, cmp_version2)
  /\ Quiet
  /\ UNCHANGED <<starter, build_version, state_observer, certVars, cmp_version1,
                 cmp_version2, ota_manager, taskVars, xferVars,
                 progress_callback, pc, op, ret, localVars, now>>

\* Strings the comparison is run on: well-formed versions, short and long
\* forms, and strings sscanf converts in part or not at all.
V_empty      == <<>>
V_space      == <<" ">>
V_abc        == <<"a", "b", "c">>
V_v1_0       == <<"v", "1", ".", "0">>
V_dot1       == <<".", "1">>
V_1          == <<"1">>
V_1_0        == <<"1", ".", "0">>
V_1_0_0      == <<"1", ".", "0", ".", "0">>
V_1_1_0      == <<"1", ".", "1", ".", "0">>
V_1_2_3      == <<"1", ".", "2", ".", "3">>
V_1_2_10     == <<"1", ".", "2", ".", "1", "0">>
V_1_10_0     == <<"1", ".", "1", "0", ".", "0">>
V_2_0_0      == <<"2", ".", "0", ".", "0">>
V_0_9_9      == <<"0", ".", "9", ".", "9">>
V_sp1_0      == <<" ", "1", ".", "0">>
V_1_x        == <<"1", ".", "x">>
V_1_2_3_4    == <<"1", ".", "2", ".", "3", ".", "4">>
V_neg1_0     == <<"-", "1", ".", "0">>
V_1_sp5      == <<"1", ".", " ", "5">>
V_01_02      == <<"0", "1", ".", "0", "2">>
V_1_dotdot_2 == <<"1", ".", ".", "2">>
VersionSamples ==
  {V_empty, V_space, V_abc, V_v1_0, V_dot1,
   V_1, V_1_0, V_1_0_0, V_1_1_0, V_1_2_3,
   V_1_2_10, V_1_10_0, V_2_0_0, V_0_9_9, V_sp1_0,
   V_1_x, V_1_2_3_4, V_neg1_0, V_1_sp5, V_01_02,
   V_1_dotdot_2}

Next ==
  \/ ota_manager_init
  \/ ota_set_progress_callback
  \/ ota_set_auto_check
  \/ ota_set_state_callback
  \/ ota_manager_start_task
  \/ ota_manager_stop_task
  \/ StopTaskFinish
  \/ CallCheck
  \/ CallForce
  \/ CallStart
  \/ Return
  \/ \E c \in Contexts : CheckGate(c)
  \/ \E c \in Contexts : FetchDns(c)
  \/ \E c \in Contexts : FetchBackoff(c)
  \/ \E c \in Contexts : FetchDone(c)
  \/ \E c \in Contexts : CheckParse(c)
  \/ \E c \in Contexts : CheckSetState(c)
  \/ \E c \in Contexts : CheckTime(c)
  \/ \E c \in Contexts : SetStateSecond(c)
  \/ StartGate
  \/ DlDns
  \/ DlBackoff
  \/ DlResolved
  \/ DlReset
  \/ DlStart
  \/ DlWait
  \/ DlPoll
  \/ DlAfter
  \/ DlStatus
  \/ StartOutcome
  \/ StartInstall
  \/ Deliver
  \/ HandlerFlag
  \/ HandlerStatus
  \/ HandlerReport
  \/ TaskLoop
  \/ TaskWake
  \/ TaskDecide
  \/ TaskAfterCheck
  \/ TaskExit

Spec == Init /\ [][Next]_vars

(***************************************************************************)
(* The certificate loader with the caller's check and update pipeline: the  *)
(* application loads the certificate, or not, before it starts an update.   *)
(* Every size of the anchor's array and a slot that is empty or holds some  *)
(* other credential are starting points.                                    *)
(***************************************************************************)
InitCert ==
  /\ InitProgram(S_1_0_0)
  /\ cert_size \in CertSizes
  /\ cert_slot \in {"none", "other"}
  /\ NoCompare

NextCert ==
  \/ CallLoad
  \/ LoadCheck
  \/ LoadClear
  \/ LoadSet
  \/ CallCheck
  \/ CallStart
  \/ Return
  \/ CheckGate("caller")
  \/ FetchDns("caller")
  \/ FetchBackoff("caller")
  \/ FetchDone("caller")
  \/ CheckParse("caller")
  \/ CheckSetState("caller")
  \/ CheckTime("caller")
  \/ SetStateSecond("caller")
  \/ StartGate
  \/ DlDns
  \/ DlBackoff
  \/ DlResolved
  \/ DlReset
  \/ DlStart
  \/ DlWait
  \/ DlPoll
  \/ DlAfter
  \/ DlStatus
  \/ StartOutcome
  \/ StartInstall
  \/ Deliver
  \/ HandlerFlag
  \/ HandlerStatus
  \/ HandlerReport

SpecCert == InitCert /\ [][NextCert]_vars

(***************************************************************************)
(* The same single caller with no scheduler, so with no forced termination: *)
(* a thread that is inside ota_check_for_updates or ota_start_update keeps  *)
(* running, each of its blocking calls (the resolver, osDelay, the transfer *)
(* start) returning in the end.                                             *)
(***************************************************************************)
(***************************************************************************)
(* The scheduler without the discipline: nothing in ota_task_main looks at  *)
(* what a caller is doing, so its wait may end, on the timeout of           *)
(* osSemaphoreAcquire, while the caller is inside ota_start_update.  The    *)
(* caller still starts its own operations with the scheduler parked.        *)
(***************************************************************************)
NextOverlap ==
  \/ ota_manager_start_task
  \/ CallCheck
  \/ CallStart
  \/ Return
  \/ \E c \in Contexts : CheckGate(c)
  \/ \E c \in Contexts : FetchDns(c)
  \/ \E c \in Contexts : FetchBackoff(c)
  \/ \E c \in Contexts : FetchDone(c)
  \/ \E c \in Contexts : CheckParse(c)
  \/ \E c \in Contexts : CheckSetState(c)
  \/ \E c \in Contexts : CheckTime(c)
  \/ \E c \in Contexts : SetStateSecond(c)
  \/ StartGate
  \/ DlDns
  \/ DlBackoff
  \/ DlResolved
  \/ DlReset
  \/ DlStart
  \/ DlWait
  \/ DlPoll
  \/ DlAfter
  \/ DlStatus
  \/ StartOutcome
  \/ StartInstall
  \/ Deliver
  \/ HandlerFlag
  \/ HandlerStatus
  \/ HandlerReport
  \/ TaskLoop
  \/ TaskAcquire
  \/ TaskDecide
  \/ TaskAfterCheck

SpecOverlap == Init /\ [][NextOverlap]_vars

(***************************************************************************)
(* ota_manager_start_task called by a second thread while the first is in   *)
(* the osDelay of ota_manager_stop_task: the two functions share            *)
(* ota_task_handle and ota_task_running and take no lock.                   *)
(***************************************************************************)
StarterStartTask ==
  /\ starter.pc = "idle" /\ pc["caller"] = "stop_delay"
  /\ IF StartTaskRefused(ota_task_handle)
       THEN /\ starter' = [pc |-> "ret", ret |-> "SL_STATUS_ALREADY_EXISTS"]
            /\ UNCHANGED <<ota_task_handle, ota_task_running, pc>>
       ELSE \E created \in BOOLEAN :
              IF created
                THEN /\ ota_task_running' = TRUE
                     /\ ota_task_handle' = "task"
                     /\ starter' = [pc |-> "ret", ret |-> "SL_STATUS_OK"]
                     /\ pc' = [pc EXCEPT !["task"] = "entry"]
                ELSE /\ ota_task_running' = FALSE
                     /\ ota_task_handle' = "NULL"
                     /\ starter' =
                          [pc |-> "ret", ret |-> "SL_STATUS_ALLOCATION_FAILED"]
                     /\ UNCHANGED pc
  /\ Quiet
  /\ UNCHANGED <<build_version, state_observer, certVars, cmpVars,
                 ota_manager, ota_semaphore, xferVars, progress_callback,
                 op, ret, localVars, now>>

\* The second thread's call has returned and its value is consumed.
StarterReturn ==
  /\ starter.pc = "ret"
  /\ starter' = StarterIdle
  /\ Quiet
  /\ UNCHANGED <<build_version, state_observer, certVars, cmpVars,
                 ota_manager, taskVars, xferVars, progress_callback, pc, op,
                 ret, localVars, now>>

\* The first thread goes on to its next command once the second thread's
\* call has returned too.
ReturnAfterStarter == starter.pc = "idle" /\ Return

NextLifecycle ==
  \/ ota_manager_start_task
  \/ ota_manager_stop_task
  \/ StopTaskFinish
  \/ ReturnAfterStarter
  \/ StarterStartTask
  \/ StarterReturn
  \/ CheckGate("task")
  \/ FetchDns("task")
  \/ FetchBackoff("task")
  \/ FetchDone("task")
  \/ CheckParse("task")
  \/ CheckSetState("task")
  \/ CheckTime("task")
  \/ SetStateSecond("task")
  \/ TaskLoop
  \/ TaskWake
  \/ TaskDecide
  \/ TaskAfterCheck
  \/ TaskExit

SpecLifecycle == Init /\ [][NextLifecycle]_vars

CallerRuns ==
  \/ CheckGate("caller")
  \/ FetchDns("caller")
  \/ FetchBackoff("caller")
  \/ FetchDone("caller")
  \/ CheckSetState("caller")
  \/ CheckTime("caller")
  \/ SetStateSecond("caller")
  \/ StartGate
  \/ DlDns
  \/ DlBackoff
  \/ DlResolved
  \/ DlReset
  \/ DlStart
  \/ DlWait
  \/ DlPoll
  \/ DlAfter
  \/ DlStatus
  \/ StartOutcome
  \/ StartInstall

\* The parse step (CheckParse) calls nothing that waits and is enabled
\* whenever the caller stands at "chk_parse": weak fairness of it says that
\* the caller does not stay at that label for ever.
ParseReturns == []<>(pc["caller"] # "chk_parse")

SpecSingleCaller ==
  InitCert /\ [][NextCert]_vars /\ WF_vars(CallerRuns) /\ ParseReturns

(***************************************************************************)
(* ota_compare_versions applied to every pair of the sample strings.        *)
(***************************************************************************)
InitCompare ==
  /\ InitProgram(S_1_0_0)
  /\ cert_size = 1468
  /\ cert_slot = SelectedAnchor
  /\ cmp_version1 \in VersionSamples
  /\ cmp_version2 \in VersionSamples
  /\ cmp_result = "none"

NextCompare == Compare

SpecCompare == InitCompare /\ [][NextCompare]_vars

TypeOK ==
  /\ ota_manager.current_state \in
       {"IDLE", "CHECKING_VERSION", "DOWNLOADING", "INSTALLING", "COMPLETE",
        "ERROR"}
  /\ ota_manager.last_error \in
       {"NONE", "NETWORK", "DNS_RESOLVE", "HTTP_REQUEST", "VERSION_PARSE",
        "DOWNLOAD_FAILED", "INSTALL_FAILED", "TIMEOUT"}
  /\ timeout_count \in 0..max_timeout
  /\ ota_manager.last_check_time \in Times
  /\ Len(events) <= MaxEvents
  /\ state_observer \in {"NULL", "fn"}
  /\ state_obs = NoStateCall
  /\ cert_size \in CertSizes
  /\ cert_slot \in {"none", "other", SelectedAnchor}
  /\ cmp_version1 \in VersionSamples /\ cmp_version2 \in VersionSamples
  /\ cmp_result \in {"none", "VERSION_NEWER", "VERSION_OLDER",
                     "VERSION_SAME", "VERSION_INVALID"}
  /\ starter.pc \in {"idle", "ret"}
  /\ starter.ret \in {"none", "SL_STATUS_OK", "SL_STATUS_ALREADY_EXISTS",
                      "SL_STATUS_ALLOCATION_FAILED"}

(***************************************************************************)
(* Reference notions used to state the properties.                          *)
(***************************************************************************)
WellFormed(v) == ScanVersion(v).n >= 1
VersionTriple(v) ==
  LET t == ScanVersion(v) IN <<t.major, t.minor, t.patch>>
TripleLess(a, b) ==
  \/ a[1] < b[1]
  \/ a[1] = b[1] /\ a[2] < b[2]
  \/ a[1] = b[1] /\ a[2] = b[2] /\ a[3] < b[3]
\* What sscanf(x, "%d.%d.%d") converts of each sample, read off the string by
\* hand: <<major, minor, patch>> with 0 for a component that is missing, or
\* <<>> when not even the major number converts.
ExpectedTriple(x) ==
  CASE x = V_empty      -> <<>>
    [] x = V_space      -> <<>>
    [] x = V_abc        -> <<>>
    [] x = V_v1_0       -> <<>>
    [] x = V_dot1       -> <<>>
    [] x = V_1          -> <<1, 0, 0>>
    [] x = V_1_0        -> <<1, 0, 0>>
    [] x = V_1_0_0      -> <<1, 0, 0>>
    [] x = V_1_1_0      -> <<1, 1, 0>>
    [] x = V_1_2_3      -> <<1, 2, 3>>
    [] x = V_1_2_10     -> <<1, 2, 10>>
    [] x = V_1_10_0     -> <<1, 10, 0>>
    [] x = V_2_0_0      -> <<2, 0, 0>>
    [] x = V_0_9_9      -> <<0, 9, 9>>
    [] x = V_sp1_0      -> <<1, 0, 0>>
    [] x = V_1_x        -> <<1, 0, 0>>
    [] x = V_1_2_3_4    -> <<1, 2, 3>>
    [] x = V_neg1_0     -> <<-1, 0, 0>>
    [] x = V_1_sp5      -> <<1, 5, 0>>
    [] x = V_01_02      -> <<1, 2, 0>>
    [] x = V_1_dotdot_2 -> <<1, 0, 0>>

\* remote is a well-formed version strictly newer than current
StrictlyNewer(remote, current) ==
  /\ WellFormed(remote) /\ WellFormed(current)
  /\ TripleLess(VersionTriple(current), VersionTriple(remote))

\* Context c has just returned from ota_check_for_updates having reached
\* the version comparison (the only path that returns SL_STATUS_OK).
CheckCompared(c) ==
  /\ pc[c] = "ret" /\ op[c] \in {"check", "force"}
  /\ ret[c] = "SL_STATUS_OK"

StartReturned == pc["caller"] = "ret" /\ op["caller"] = "start"

CountOk(evs) == Cardinality({i \in 1..Len(evs) : evs[i] = "ok"})

\* Positions inside ota_check_for_updates and inside ota_start_update.
CheckPcs == {"chk_entry", "fetch_dns", "fetch_backoff", "fetch_done",
             "chk_parse", "chk_state", "chk_time", "chk_down_e",
             "chk_enter_e", "fetch_fail_e", "parse_fail_e", "chk_state_e"}
StartPcs == {"start_entry", "dl_dns", "dl_backoff", "dl_resolved", "dl_reset",
             "dl_start", "dl_wait", "dl_poll", "dl_after", "dl_status",
             "dl_return", "start_install", "start_down_e", "start_enter_e",
             "dl_fail_e", "install_e", "complete_e"}

\* Context c has just returned from ota_check_for_updates.
CheckReturned(c) == pc[c] = "ret" /\ op[c] \in {"check", "force"}

\* The (state, error) pair of the manager.
StatePair(m) == <<m.current_state, m.last_error>>

(***************************************************************************)
(* Properties.                                                              *)
(***************************************************************************)

\* C1: ota_start_update called while update_available is false returns
\* SL_STATUS_NOT_AVAILABLE and changes nothing: the manager state (state,
\* error, flag, latest version, last check time) is as before the call, no
\* resolver call is made and no transfer is started.
C1_StartUpdateNotAvailable ==
  [][ (/\ pc["caller"] = "start_entry"
       /\ ~ota_manager.update_available
       /\ pc'["caller"] # "start_entry")
      => (/\ pc'["caller"] = "ret"
          /\ ret'["caller"] = "SL_STATUS_NOT_AVAILABLE"
          /\ ota_manager' = ota_manager
          /\ dns_attempts'["caller"] = 0
          /\ UNCHANGED <<transfer, events, ota_response_received,
                         ota_callback_status>>) ]_vars

C1_Witness ==
  /\ StartReturned
  /\ ret["caller"] = "SL_STATUS_NOT_AVAILABLE"
  /\ ~ota_manager.update_available

\* C2: a check whose resolver succeeds and whose served token is a
\* well-formed version strictly newer than the running one returns with
\* state IDLE, error NONE, update_available true and latest_version equal to
\* the served token.
C2_NewerVersionFound ==
  \A c \in Contexts :
    (CheckCompared(c)
       /\ StrictlyNewer(ServedToken, ota_manager.current_version))
    => /\ ota_manager.current_state = "IDLE"
       /\ ota_manager.last_error = "NONE"
       /\ ota_manager.update_available
       /\ ota_manager.latest_version = ServedToken

C2_Witness ==
  /\ CheckCompared("caller")
  /\ ota_manager.current_version = S_1_0_0
  /\ ota_manager.update_available
  /\ ota_manager.latest_version = ServedToken

\* C3: after a check that reached the comparison, update_available is true
\* exactly when the served version is strictly newer than the running one;
\* a same or older served version ends in IDLE with the flag false, an
\* invalid comparison ends in ERROR / VERSION_PARSE with the flag false.
C3_AvailableIffNewer ==
  \A c \in Contexts :
    CheckCompared(c) =>
      LET cur == ota_manager.current_version
          valid == WellFormed(cur) /\ WellFormed(ServedToken)
      IN  /\ ota_manager.update_available <=> StrictlyNewer(ServedToken, cur)
          /\ (valid /\ ~StrictlyNewer(ServedToken, cur))
               => /\ ota_manager.current_state = "IDLE"
                  /\ ota_manager.last_error = "NONE"
          /\ ~valid
               => /\ ota_manager.current_state = "ERROR"
                  /\ ota_manager.last_error = "VERSION_PARSE"

C3_Witness ==
  /\ CheckCompared("task")
  /\ ota_manager.current_version = S_1_10_0
  /\ ~ota_manager.update_available
  /\ ota_manager.current_state = "IDLE"

\* C4 as stated: update_available = true implies current_state = IDLE.
C4_FlagOnlyInIdle ==
  ota_manager.update_available => ota_manager.current_state = "IDLE"

\* C4 amended: update_available = true implies that the latest_version
\* recorded by the last comparison is strictly newer than current_version;
\* the state need not be IDLE, because neither ota_start_update nor a failed
\* check clears the flag.
C4_FlagOnlyIfNewer ==
  ota_manager.update_available
    => StrictlyNewer(ota_manager.latest_version, ota_manager.current_version)

C4_Witness ==
  /\ ota_manager.update_available
  /\ ota_manager.current_state = "COMPLETE"

\* C5: when the handler delivers a success signal (and no failure signal)
\* and the waiter sees the flag before the timeout, ota_start_update returns
\* SL_STATUS_OK with the state COMPLETE and the error NONE.
C5_SuccessSignalCompletes ==
  (/\ StartReturned
   /\ events # <<>>
   /\ \A i \in 1..Len(events) : events[i] = "ok"
   /\ ret["caller"] # "SL_STATUS_TIMEOUT")
  => /\ ret["caller"] = "SL_STATUS_OK"
     /\ ota_manager.current_state = "COMPLETE"
     /\ ota_manager.last_error = "NONE"

\* C6: for a download that ends with a success signal, once the handler has
\* run, the last call made to the registered observer is 100 of 100: no
\* estimate of the waiter follows the 100% report.
C6_FinalReportIsLast ==
  (/\ StartReturned /\ ret["caller"] = "SL_STATUS_OK"
   /\ progress_callback # "NULL" /\ hpc = "idle")
  => last_report = "full"

\* C7 as stated: a download that receives a completion signal calls the
\* observer with 100% exactly once, whatever the outcome signalled and
\* however many events the transport delivers.
C7_ExactlyOneFullReport ==
  (/\ StartReturned /\ hpc = "idle" /\ events # <<>>
   /\ progress_callback # "NULL")
  => n100 = 1

\* C7 amended: with an observer registered, the handler calls it with 100%
\* exactly once for each success event delivered and not at all for a
\* failure event, so the number of 100% reports of a transfer equals the
\* number of success events handled.
C7_OneFullReportPerSuccess ==
  (transfer /\ hpc = "idle")
  => n100 = IF progress_callback # "NULL" THEN CountOk(events) ELSE 0

C7_Witness ==
  /\ transfer /\ hpc = "idle" /\ progress_callback # "NULL"
  /\ events = <<"fail", "ok">>
  /\ n100 = 1

\* C8: when no completion signal arrives within the timeout,
\* ota_start_update reports SL_STATUS_TIMEOUT and the manager ends in
\* ERROR with last_error = TIMEOUT.
C8_TimeoutRecorded ==
  (StartReturned /\ ret["caller"] = "SL_STATUS_TIMEOUT")
  => /\ ota_manager.current_state = "ERROR"
     /\ ota_manager.last_error = "TIMEOUT"

\* C9: every progress value the polling waiter reports equals
\* min(elapsedSeconds * 100 / timeoutSeconds, 95) with total 100, for an
\* elapsed count between 1 and timeoutSeconds; none exceeds 95.
C9_EstimateFormula ==
  obs.src = "waiter"
  => /\ timeout_count \in 1..TimeoutSeconds
     /\ obs.total = 100
     /\ obs.progress = Min((timeout_count * 100) \div TimeoutSeconds, 95)
     /\ obs.progress <= 95

C9_Witness ==
  /\ obs.src = "waiter"
  /\ timeout_count = TimeoutSeconds
  /\ obs.progress = 95

\* C10: in both resolution loops, a run of failures makes exactly
\* OTA_MAX_DNS_RETRY_COUNT attempts with a backoff sleep between failed
\* attempts only (one fewer than the attempts), and the first successful
\* attempt ends the loop.
C10_ResolveAttempts ==
  \A c \in Contexts :
    /\ pc[c] \in {"fetch_done", "dl_resolved"}
         => /\ dns_sleeps[c] = dns_attempts[c] - 1
            /\ dns_attempts[c] \in 1..OTA_MAX_DNS_RETRY_COUNT
            /\ status[c] # "SL_STATUS_OK"
                 => dns_attempts[c] = OTA_MAX_DNS_RETRY_COUNT
    /\ (pc[c] \in {"fetch_dns", "dl_dns"} /\ dns_attempts[c] > 0)
         => /\ status[c] # "SL_STATUS_OK"
            /\ dns_attempts[c] < OTA_MAX_DNS_RETRY_COUNT
            /\ dns_sleeps[c] = dns_attempts[c]
    /\ pc[c] \in {"fetch_backoff", "dl_backoff"}
         => /\ status[c] # "SL_STATUS_OK"
            /\ dns_attempts[c] < OTA_MAX_DNS_RETRY_COUNT
            /\ dns_sleeps[c] = dns_attempts[c] - 1

C10_Witness ==
  /\ pc["caller"] = "dl_resolved"
  /\ status["caller"] = "DNS_ERROR"
  /\ dns_attempts["caller"] = OTA_MAX_DNS_RETRY_COUNT
  /\ dns_sleeps["caller"] = OTA_MAX_DNS_RETRY_COUNT - 1

C12_ConnectivityGate ==
  [][ \A c \in Contexts :
        /\ (/\ pc[c] \in {"chk_entry", "start_entry"}
            /\ pc'[c] \in {"chk_down_e", "start_down_e"})
           => /\ pc[c] = "start_entry" => ota_manager.update_available
              /\ ota_manager' = [ota_manager EXCEPT !.current_state = "ERROR"]
              /\ dns_attempts'[c] = 0
              /\ UNCHANGED <<transfer, events, ota_response_received>>
        /\ (/\ pc[c] \in {"chk_down_e", "start_down_e"}
            /\ pc'[c] \notin {pc[c], "none"})
           => /\ pc'[c] = "ret"
              /\ ret'[c] = "SL_STATUS_NETWORK_DOWN"
              /\ ota_manager' = [ota_manager EXCEPT !.last_error = "NETWORK"]
              /\ dns_attempts'[c] = 0
              /\ UNCHANGED <<transfer, events, ota_response_received>>
        /\ (pc[c] = "chk_entry" /\ pc'[c] \notin {"chk_entry", "none"})
           => \/ pc'[c] = "chk_down_e"
              \/ /\ pc'[c] = "chk_enter_e"
                 /\ ota_manager'.current_state = "CHECKING_VERSION"
        /\ (pc[c] = "chk_enter_e" /\ pc'[c] \notin {"chk_enter_e", "none"})
           => /\ pc'[c] = "fetch_dns"
              /\ ota_manager'.last_error = "NONE"
    ]_vars

C12_Witness ==
  /\ StartReturned
  /\ ret["caller"] = "SL_STATUS_NETWORK_DOWN"
  /\ StatePair(ota_manager) = <<"ERROR", "NETWORK">>
  /\ ota_manager.update_available
  /\ ota_manager.last_check_time = VERSION_CHECK_INTERVAL

\* C13: every ota_check_for_updates that passed the connectivity gate has
\* set last_check_time to the current time when it returns, whatever the
\* outcome of the pipeline, a failed fetch included.
C13_CheckTimeAlwaysSet ==
  \A c \in Contexts :
    (CheckReturned(c) /\ ret[c] # "SL_STATUS_NETWORK_DOWN")
    => ota_manager.last_check_time = now

\* C14: once a state observer has been registered, every step that changes
\* the (state, error) pair calls the observer with the new pair.
C14_StateObserverCalled ==
  [][ (state_observer # "NULL" /\ StatePair(ota_manager') # StatePair(ota_manager))
      => state_obs' = [called |-> TRUE,
                       state |-> ota_manager'.current_state,
                       error |-> ota_manager'.last_error] ]_vars

\* C15: the scheduler never runs ota_start_update: the task is never at a
\* position of ota_start_update, and every step that moves the state to
\* DOWNLOADING, INSTALLING or COMPLETE is a step of the caller's own
\* ota_start_update.
C15_SchedulerNeverStarts ==
  [][ /\ pc'["task"] \notin StartPcs
      /\ op'["task"] # "start"
      /\ (/\ ota_manager'.current_state \in
                {"DOWNLOADING", "INSTALLING", "COMPLETE"}
          /\ ota_manager'.current_state # ota_manager.current_state)
         => /\ op["caller"] = "start"
            /\ pc["caller"] \in StartPcs
            /\ pc'["task"] = pc["task"] ]_vars

C15_Witness ==
  /\ pc["task"] = "ret" /\ ret["task"] = "SL_STATUS_OK"
  /\ ota_manager.update_available
  /\ ota_manager.current_state = "IDLE"

\* C16: ota_force_check_update zeroes last_check_time and enters
\* ota_check_for_updates whatever the clock says; the scheduler, on a wake
\* with the automatic check enabled, enters ota_check_for_updates exactly
\* when the clock reading minus last_check_time is at least the interval.
C16_ForceBypassesInterval ==
  [][ /\ (op["caller"] # "force" /\ op'["caller"] = "force")
         => /\ ota_manager'.last_check_time = 0
            /\ pc'["caller"] = "chk_entry"
      /\ (pc["task"] = "woken" /\ pc'["task"] = "chk_entry")
         => now' - ota_manager.last_check_time >= VERSION_CHECK_INTERVAL
      /\ (/\ pc["task"] = "woken" /\ pc'["task"] = "entry"
          /\ ota_task_running /\ ota_manager.auto_check_enabled)
         => now' - ota_manager.last_check_time < VERSION_CHECK_INTERVAL
    ]_vars

\* A forced check has run to the comparison while the clock still reads 0:
\* no time has elapsed since last_check_time, where the scheduler skips.
C16_Witness ==
  /\ CheckCompared("caller") /\ op["caller"] = "force"
  /\ now = 0 /\ ota_manager.last_check_time = 0
  /\ ota_manager.latest_version = ServedToken

\* C17: with auto_check_enabled false a wake of the scheduler starts no
\* check; ota_set_auto_check writes the flag and nothing else, so a check in
\* flight goes on from where it is; a check called by hand passes its gate
\* with the flag false as with the flag true.
C17_AutoCheckDisabled ==
  [][ /\ (pc["task"] = "woken" /\ ~ota_manager.auto_check_enabled)
         => pc'["task"] # "chk_entry"
      /\ (/\ ota_manager'.auto_check_enabled # ota_manager.auto_check_enabled
          /\ pc' = pc)
         => /\ ota_manager' =
                 [ota_manager EXCEPT
                    !.auto_check_enabled = ~ota_manager.auto_check_enabled]
            /\ UNCHANGED <<op, ret, localVars, taskVars, xferVars>>
      /\ (/\ pc["caller"] = "chk_entry" /\ pc'["caller"] # "chk_entry"
          /\ ~ota_manager.auto_check_enabled)
         => \/ pc'["caller"] = "chk_down_e"
            \/ /\ pc'["caller"] = "chk_enter_e"
               /\ ota_manager'.current_state = "CHECKING_VERSION"
    ]_vars

C17_Witness ==
  /\ pc["task"] = "ret" /\ ret["task"] = "SL_STATUS_OK"
  /\ ~ota_manager.auto_check_enabled

\* C18: after ota_manager_stop_task has cleared ota_task_running, the
\* scheduler starts no check: woken from its wait it goes to the exit; when
\* ota_manager_stop_task returns the handle is NULL and no scheduler context
\* is left, and a following ota_manager_start_task is not refused.
C18_StopExitsScheduler ==
  [][ /\ (~ota_task_running /\ pc["task"] # "chk_entry")
         => pc'["task"] # "chk_entry"
      /\ (pc["task"] = "woken" /\ ~ota_task_running /\ pc'["task"] # "woken")
         => pc'["task"] \in {"exit", "none"}
      /\ (/\ pc'["caller"] = "ret" /\ op'["caller"] = "stop_task"
          /\ ret'["caller"] = "SL_STATUS_OK")
         => (ota_task_handle' = "NULL" /\ pc'["task"] = "none")
      /\ (/\ ota_task_handle = "NULL"
          /\ op["caller"] # "start_task" /\ op'["caller"] = "start_task")
         => ret'["caller"] # "SL_STATUS_ALREADY_EXISTS"
    ]_vars

\* The task, woken from its wait by the token of ota_manager_stop_task, has
\* exited by itself during the grace delay.
C18_Witness ==
  /\ pc["caller"] = "stop_delay"
  /\ ota_semaphore.tokens = 0
  /\ pc["task"] = "none" /\ ota_task_handle = "NULL"

\* C19: ota_manager_stop_task never cancels a check in flight, so the state
\* is CHECKING_VERSION only while some context is inside
\* ota_check_for_updates.
C19_InFlightCheckCompletes ==
  (\A c \in Contexts : pc[c] \notin CheckPcs)
  => ota_manager.current_state # "CHECKING_VERSION"

\* C20: ota_manager_start_task with a scheduler context alive returns
\* SL_STATUS_ALREADY_EXISTS and ota_manager_stop_task with none returns
\* SL_STATUS_NOT_INITIALIZED, each changing nothing; the handle is non-NULL
\* exactly while the one scheduler context exists.
C20_LifecycleMisuse ==
  [][ /\ (/\ op["caller"] # "start_task" /\ op'["caller"] = "start_task"
          /\ ota_task_handle # "NULL")
         => /\ ret'["caller"] = "SL_STATUS_ALREADY_EXISTS"
            /\ pc'["task"] = pc["task"]
            /\ UNCHANGED <<ota_manager, taskVars, xferVars, localVars>>
      /\ (/\ op["caller"] # "stop_task" /\ op'["caller"] = "stop_task"
          /\ ota_task_handle = "NULL")
         => /\ ret'["caller"] = "SL_STATUS_NOT_INITIALIZED"
            /\ pc'["task"] = pc["task"]
            /\ UNCHANGED <<ota_manager, taskVars, xferVars, localVars>>
      /\ (ota_task_handle' = "NULL") <=> (pc'["task"] = "none")
    ]_vars

C20_Witness ==
  /\ pc["caller"] = "ret" /\ op["caller"] = "start_task"
  /\ ret["caller"] = "SL_STATUS_ALREADY_EXISTS"
  /\ ota_task_handle = "task" /\ pc["task"] = "wait"

\* C21: the step of ota_manager_init leaves the manager IDLE / NONE with
\* auto_check_enabled true, update_available false, current_version the
\* version of the build, latest_version empty and last_check_time,
\* download_progress and total_size zero, whatever it held before; it returns
\* SL_STATUS_ALLOCATION_FAILED exactly when the semaphore could not be
\* created, and SL_STATUS_OK otherwise.
C21_InitResets ==
  [][ (/\ pc["caller"] = "idle" /\ pc'["caller"] = "ret"
       /\ op'["caller"] = "init")
      => /\ ota_manager'.current_state = "IDLE"
         /\ ota_manager'.last_error = "NONE"
         /\ ota_manager'.auto_check_enabled
         /\ ~ota_manager'.update_available
         /\ ota_manager'.current_version = build_version
         /\ ota_manager'.latest_version = <<>>
         /\ ota_manager'.last_check_time = 0
         /\ ota_manager'.download_progress = 0
         /\ ota_manager'.total_size = 0
         /\ ret'["caller"] \in {"SL_STATUS_OK", "SL_STATUS_ALLOCATION_FAILED"}
         /\ (ret'["caller"] = "SL_STATUS_ALLOCATION_FAILED")
            <=> (ota_semaphore' = NullSemaphore)
    ]_vars

\* ota_manager_init has returned the allocation error on a manager that had
\* run a download before: the report of that download is still the last one
\* seen, and the manager is reset.
C21_Witness ==
  /\ pc["caller"] = "ret" /\ op["caller"] = "init"
  /\ ret["caller"] = "SL_STATUS_ALLOCATION_FAILED"
  /\ last_report # "none"
  /\ now = VERSION_CHECK_INTERVAL
  /\ StatePair(ota_manager) = <<"IDLE", "NONE">>
  /\ ~ota_manager.update_available /\ ota_manager.latest_version = <<>>

\* C22: a reader on another context sees, in every state, a (state, error)
\* pair that some ota_set_state call or ota_manager_init wrote as a pair:
\* never the new state with the old error.
C22_StateErrorTogether ==
  StatePair(ota_manager) \in
    {<<"IDLE", "NONE">>, <<"CHECKING_VERSION", "NONE">>,
     <<"DOWNLOADING", "NONE">>, <<"INSTALLING", "NONE">>,
     <<"COMPLETE", "NONE">>, <<"ERROR", "NETWORK">>,
     <<"ERROR", "VERSION_PARSE">>, <<"ERROR", "DOWNLOAD_FAILED">>}

\* C23: whenever the waiter has seen ota_response_received raised and read
\* ota_callback_status, the value it read is the outcome of a handler
\* invocation of this transfer: SL_STATUS_OK only if a success event was
\* delivered, SL_STATUS_FAIL only if a failure event was.
C23_OutcomeOfHandler ==
  (/\ pc["caller"] = "dl_return"
   /\ status["caller"] \in {"SL_STATUS_OK", "SL_STATUS_FAIL"})
  => \E i \in 1..Len(events) :
       status["caller"] = IF events[i] = "ok" THEN "SL_STATUS_OK"
                                              ELSE "SL_STATUS_FAIL"

\* C24 (as claimed): the error recorded for a start the transport rejected
\* differs from the one recorded for a failure the handler reports later.
C24_RejectionDistinct ==
  (StartReturned /\ ret["caller"] = "OTAF_ERROR")
  => /\ ota_manager.current_state = "ERROR"
     /\ ota_manager.last_error # DownloadErrorKind("SL_STATUS_FAIL")

\* C24: when sl_si91x_http_otaf_v2 returns an error, ota_download_firmware
\* returns it at once: the wait loop is not entered and no transfer is in
\* flight; no step up to the return of ota_start_update calls the progress
\* observer; ota_start_update stores ERROR (never INSTALLING), then
\* DOWNLOAD_FAILED, the error it records for a failure of the handler too,
\* and returns the transport's status.
C24_StartRejected ==
  [][ /\ (pc["caller"] = "dl_start" /\ status'["caller"] = "OTAF_ERROR")
         => /\ pc'["caller"] = "dl_return"
            /\ ~transfer' /\ events' = <<>>
            /\ obs' = NoCall
      /\ (pc["caller"] = "dl_return" /\ status["caller"] = "OTAF_ERROR")
         => /\ pc'["caller"] \in {"dl_return", "dl_fail_e"}
            /\ ota_manager'.current_state \in {"DOWNLOADING", "ERROR"}
            /\ pc'["caller"] = "dl_fail_e"
               => ota_manager'.current_state = "ERROR"
            /\ ~transfer'
            /\ obs' = NoCall
      /\ (pc["caller"] = "dl_fail_e" /\ status["caller"] = "OTAF_ERROR")
         => /\ pc'["caller"] \in {"dl_fail_e", "ret"}
            /\ ota_manager'.current_state = "ERROR"
            /\ pc'["caller"] = "ret"
               => /\ ret'["caller"] = "OTAF_ERROR"
                  /\ ota_manager'.last_error = "DOWNLOAD_FAILED"
                  /\ ota_manager'.last_error =
                       DownloadErrorKind("SL_STATUS_FAIL")
            /\ ~transfer'
            /\ obs' = NoCall
    ]_vars

C24_Witness ==
  /\ StartReturned /\ ret["caller"] = "OTAF_ERROR"
  /\ StatePair(ota_manager) = <<"ERROR", "DOWNLOAD_FAILED">>
  /\ progress_callback # "NULL"
  /\ events = <<>> /\ ~transfer

\* C25: ota_load_certificates on an empty anchor (cert_size 0) returns
\* SL_STATUS_NULL_POINTER from its first test: the slot keeps its content,
\* and neither sl_net_delete_credential nor sl_net_set_credential is reached.
C25_EmptyMaterialRejected ==
  [][ cert_size = 0
      => /\ cert_slot' = cert_slot
         /\ pc'["caller"] \notin {"load_clear", "load_set"}
         /\ (pc["caller"] = "load_entry" /\ pc'["caller"] # "load_entry")
            => /\ pc'["caller"] = "ret"
               /\ ret'["caller"] = "SL_STATUS_NULL_POINTER"
    ]_vars

C25_Witness ==
  /\ pc["caller"] = "ret" /\ op["caller"] = "load"
  /\ ret["caller"] = "SL_STATUS_NULL_POINTER"
  /\ cert_size = 0
  /\ cert_slot = "other"

\* C26: ota_load_certificates on a non-empty anchor goes to the clear of the
\* slot first and reaches the set only from the clear; whatever the clear
\* returns, SL_STATUS_NOT_FOUND included, the set follows; the clear leaves
\* the slot empty or as it was; a load that returns SL_STATUS_OK leaves the
\* selected anchor in the slot; and nothing but a load changes the slot, so
\* this holds after each of any number of loads.
C26_ClearThenSet ==
  [][ /\ (/\ pc["caller"] = "load_entry" /\ pc'["caller"] # "load_entry"
          /\ cert_size > 0)
         => pc'["caller"] = "load_clear"
      /\ (pc'["caller"] = "load_set" /\ pc["caller"] # "load_set")
         => pc["caller"] = "load_clear"
      /\ (pc["caller"] = "load_clear" /\ pc'["caller"] # "load_clear")
         => /\ pc'["caller"] = "load_set"
            /\ cert_slot' \in {"none", cert_slot}
            /\ status'["caller"] \in {"SL_STATUS_OK", "SL_STATUS_NOT_FOUND"}
               => cert_slot' = "none"
      /\ (/\ pc["caller"] = "load_set" /\ pc'["caller"] = "ret"
          /\ ret'["caller"] = "SL_STATUS_OK")
         => cert_slot' = SelectedAnchor
      /\ (cert_slot' # cert_slot)
         => pc["caller"] \in {"load_clear", "load_set"}
      /\ (pc["caller"] = "ret" /\ op["caller"] = "load"
          /\ ret["caller"] = "SL_STATUS_OK")
         => cert_slot = SelectedAnchor
    ]_vars

C26_Witness ==
  /\ pc["caller"] = "ret" /\ op["caller"] = "load"
  /\ ret["caller"] = "SL_STATUS_OK"
  /\ cert_size > 0
  /\ cert_slot = SelectedAnchor

\* C27: while a transfer that ota_start_update started is in flight, the
\* slot holds the selected anchor: the downloader was started after the
\* anchor had been installed.
C27_AnchorBeforeTransfer ==
  transfer => cert_slot = SelectedAnchor

\* C28 (as claimed): ota_compare_versions(x, x) is VERSION_SAME for every
\* string x, empty and malformed ones included.
C28_SelfCompareSame ==
  (cmp_result # "none" /\ cmp_version1 = cmp_version2)
  => cmp_result = "VERSION_SAME"

\* C28: ota_compare_versions(x, x) is VERSION_SAME for every string x of
\* which sscanf converts at least the major number, and VERSION_INVALID for
\* every other x.
C28_SelfCompare ==
  (cmp_result # "none" /\ cmp_version1 = cmp_version2)
  => cmp_result = IF ExpectedTriple(cmp_version1) # <<>>
                    THEN "VERSION_SAME" ELSE "VERSION_INVALID"

C28_Witness ==
  /\ cmp_version1 = V_abc /\ cmp_version2 = V_abc
  /\ cmp_result = "VERSION_INVALID"

\* The result for the arguments swapped that antisymmetry asks for.
Mirror(r) ==
  CASE r = "VERSION_NEWER" -> "VERSION_OLDER"
    [] r = "VERSION_OLDER" -> "VERSION_NEWER"
    [] OTHER -> r

\* C29: for every pair of strings, ota_compare_versions(b, a) is
\* VERSION_OLDER when ota_compare_versions(a, b) is VERSION_NEWER and the
\* other way round, VERSION_SAME when it is VERSION_SAME and VERSION_INVALID
\* when it is VERSION_INVALID.
C29_Antisymmetric ==
  cmp_result # "none"
  => ota_compare_versions(cmp_version2, cmp_version1) = Mirror(cmp_result)

C29_Witness ==
  /\ cmp_version1 = V_1_2_10 /\ cmp_version2 = V_1_x
  /\ cmp_result = "VERSION_NEWER"
  /\ ota_compare_versions(cmp_version2, cmp_version1) = "VERSION_OLDER"

\* C30: ota_compare_versions(a, b) is the lexicographic comparison of the
\* triples (major, minor, patch) the two strings denote, a missing minor or
\* patch being 0: VERSION_OLDER exactly when a's triple is the smaller,
\* VERSION_NEWER when it is the larger, VERSION_SAME when they are equal, and
\* VERSION_INVALID exactly when one of the strings has no major number.
C30_LexicographicTriples ==
  cmp_result # "none"
  => LET t1 == ExpectedTriple(cmp_version1)
         t2 == ExpectedTriple(cmp_version2)
     IN  cmp_result =
           IF t1 = <<>> \/ t2 = <<>> THEN "VERSION_INVALID"
           ELSE IF TripleLess(t1, t2) THEN "VERSION_OLDER"
           ELSE IF TripleLess(t2, t1) THEN "VERSION_NEWER"
           ELSE "VERSION_SAME"

C30_Witness ==
  /\ cmp_version1 = V_1_2_3 /\ cmp_version2 = V_1_2_10
  /\ cmp_result = "VERSION_OLDER"

\* C31: an earlier error neither blocks nor alters a later attempt.  A check
\* or an update (with an update available) that starts on a manager holding
\* ERROR passes its gate as on any other manager: with connectivity the
\* first store writes CHECKING_VERSION / DOWNLOADING over ERROR and the
\* second store writes NONE over whatever error was recorded; the check that
\* compared a well-formed token then stores IDLE and NONE, and the update
\* that completes stores COMPLETE and NONE and returns SL_STATUS_OK.
C31_ErrorRecoverable ==
  [][ \A c \in Contexts :
        /\ (/\ pc[c] = "chk_entry" /\ pc'[c] = "chk_enter_e")
           => ota_manager'.current_state = "CHECKING_VERSION"
        /\ (/\ pc[c] = "start_entry" /\ pc'[c] = "start_enter_e")
           => ota_manager'.current_state = "DOWNLOADING"
        /\ (/\ pc[c] \in {"chk_entry", "start_entry"} /\ pc'[c] = "ret"
            /\ ota_manager.current_state = "ERROR")
           => /\ pc[c] = "start_entry"
              /\ ~ota_manager.update_available
        /\ (/\ pc[c] \in {"chk_enter_e", "start_enter_e"}
            /\ pc'[c] \notin {pc[c], "none"})
           => ota_manager'.last_error = "NONE"
        /\ (/\ pc[c] = "chk_state" /\ pc'[c] = "chk_state_e"
            /\ result[c] # "VERSION_INVALID")
           => ota_manager'.current_state = "IDLE"
        /\ (/\ pc[c] = "chk_state_e" /\ pc'[c] = "chk_time"
            /\ result[c] # "VERSION_INVALID")
           => ota_manager'.last_error = "NONE"
        /\ (pc[c] = "start_install" /\ pc'[c] = "complete_e")
           => ota_manager'.current_state = "COMPLETE"
        /\ (pc[c] = "complete_e" /\ pc'[c] = "ret")
           => /\ ota_manager'.last_error = "NONE"
              /\ ret'[c] = "SL_STATUS_OK"
    ]_vars

\* A check called on a manager that a failed download had left in ERROR /
\* DOWNLOAD_FAILED has passed its gate: CHECKING_VERSION is stored, the old
\* error is about to be overwritten.
C31_Witness ==
  /\ pc["caller"] = "chk_enter_e"
  /\ ota_manager.current_state = "CHECKING_VERSION"
  /\ ota_manager.last_error = "DOWNLOAD_FAILED"

\* The events delivered for the transfer so far are all failure signals.
OnlyFailures == \A i \in 1..Len(events) : events[i] = "fail"

\* C32: in an ota_start_update whose transfer has had failure signals only,
\* the state is DOWNLOADING or ERROR at every point from the start of the
\* transfer on (never INSTALLING or COMPLETE) and the observer has had no
\* call with progress 100; the waiter that saw the flag (and stands before
\* return ota_callback_status) reads SL_STATUS_FAIL, and ota_start_update
\* returns it (or SL_STATUS_TIMEOUT, when the signal came after the waiter
\* had given up) with the state ERROR and the error DOWNLOAD_FAILED.
C32_FailureSignal ==
  (op["caller"] = "start" /\ transfer /\ events # <<>> /\ OnlyFailures)
  => /\ ota_manager.current_state \in {"DOWNLOADING", "ERROR"}
     /\ n100 = 0 /\ last_report # "full"
     /\ pc["caller"] = "dl_return"
        => status["caller"] \in {"SL_STATUS_FAIL", "SL_STATUS_TIMEOUT"}
     /\ pc["caller"] = "dl_status" => ota_callback_status = "SL_STATUS_FAIL"
     /\ pc["caller"] = "ret"
        => /\ ret["caller"] \in {"SL_STATUS_FAIL", "SL_STATUS_TIMEOUT"}
           /\ StatePair(ota_manager) = <<"ERROR", "DOWNLOAD_FAILED">>

C32_Witness ==
  /\ StartReturned /\ transfer
  /\ events = <<"fail">>
  /\ ret["caller"] = "SL_STATUS_FAIL"
  /\ StatePair(ota_manager) = <<"ERROR", "DOWNLOAD_FAILED">>
  /\ progress_callback # "NULL" /\ n100 = 0

C36_FailureKeepsPending ==
  [][ /\ (\/ ota_manager'.update_available # ota_manager.update_available
          \/ ota_manager'.latest_version # ota_manager.latest_version)
         => \/ \E c \in Contexts : pc[c] = "chk_parse" /\ pc'[c] = "chk_state"
            \/ pc["caller"] = "idle" /\ op'["caller"] = "init"
      /\ \A c \in Contexts :
           (/\ pc[c] = "fetch_done" /\ status[c] # "SL_STATUS_OK"
            /\ pc'[c] \notin {"fetch_done", "none"})
           => pc'[c] = "fetch_fail_e"
      /\ \A c \in Contexts :
           (pc[c] \in {"chk_down_e", "fetch_fail_e", "parse_fail_e"})
           => pc'[c] \in {pc[c], "ret", "none"}
      /\ (StartReturned
          /\ ret["caller"] \notin {"SL_STATUS_OK", "SL_STATUS_NOT_AVAILABLE"})
         => /\ ota_manager.update_available
            /\ ota_manager.current_state = "ERROR"
    ]_vars

\* ota_start_update has returned the timeout; the update is still pending.
C36_Witness ==
  /\ StartReturned /\ ret["caller"] = "SL_STATUS_TIMEOUT"
  /\ ota_manager.update_available
  /\ ota_manager.latest_version = ServedToken
  /\ ota_manager.current_state = "ERROR"

\* C37: the pair ota_get_download_progress returns is, in the step of a
\* running download that calls the progress observer, the pair given to the
\* observer, and after an ota_start_update that returned SL_STATUS_OK it has
\* progress = total and total > 0.
C37_ProgressReflectsDownload ==
  /\ (obs # NoCall /\ ota_manager.current_state = "DOWNLOADING")
     => ota_get_download_progress(ota_manager) = <<obs.progress, obs.total>>
  /\ (StartReturned /\ ret["caller"] = "SL_STATUS_OK")
     => /\ ota_get_download_progress(ota_manager)[1] =
             ota_get_download_progress(ota_manager)[2]
        /\ ota_get_download_progress(ota_manager)[2] > 0

\* States in which the manager rests between operations.
Resting == {"IDLE", "COMPLETE", "ERROR"}

\* C33: with a single caller and no scheduler, every ota_check_for_updates
\* and every ota_start_update that has been entered returns; when
\* ota_check_for_updates has returned the state is IDLE or ERROR; when
\* ota_start_update has returned it is COMPLETE after SL_STATUS_OK, the
\* resting state it found after SL_STATUS_NOT_AVAILABLE and ERROR after any
\* other value; and with no operation in flight the state is never
\* CHECKING_VERSION, DOWNLOADING or INSTALLING.
C33_OperationsTerminate ==
  /\ [](pc["caller"] \notin CheckPcs \cup StartPcs
        => ota_manager.current_state \in Resting)
  /\ [](CheckReturned("caller")
        => ota_manager.current_state \in {"IDLE", "ERROR"})
  /\ [](StartReturned
        => ota_manager.current_state =
             IF ret["caller"] = "SL_STATUS_OK" THEN "COMPLETE"
             ELSE IF ret["caller"] = "SL_STATUS_NOT_AVAILABLE"
               THEN ota_manager.current_state
             ELSE "ERROR")
  /\ (pc["caller"] \in CheckPcs \cup StartPcs) ~> (pc["caller"] = "ret")

\* The wait of ota_download_firmware has ended with no signal at all.
C33_Witness ==
  /\ StartReturned /\ ret["caller"] = "SL_STATUS_TIMEOUT"
  /\ events = <<>> /\ hpc = "idle"
  /\ ota_manager.current_state = "ERROR"

\* The caller is inside ota_download_firmware, between the store of
\* DOWNLOADING and the handling of the download's result.
DownloadPcs == {"dl_dns", "dl_backoff", "dl_resolved", "dl_reset", "dl_start",
                "dl_wait", "dl_poll", "dl_after", "dl_status", "dl_return"}

\* C35 (as claimed): while the caller's download is in flight no step, of the
\* scheduler's check or of anything else, takes currentState away from
\* DOWNLOADING, changes updateAvailable or changes latestVersion.
C35_DownloadUndisturbed ==
  [][(pc["caller"] \in DownloadPcs /\ pc'["caller"] \in DownloadPcs)
       => /\ ota_manager'.current_state = "DOWNLOADING"
          /\ ota_manager'.update_available = ota_manager.update_available
          /\ ota_manager'.latest_version = ota_manager.latest_version]_vars

\* C38 (as claimed): when ota_manager_stop_task finishes after a concurrent
\* ota_manager_start_task has created a new scheduler context during the
\* grace period, it neither terminates that context nor clears its handle.
C38_StopSparesNewContext ==
  [][(/\ pc["caller"] = "stop_delay" /\ pc'["caller"] = "ret"
      /\ starter.pc = "ret" /\ starter.ret = "SL_STATUS_OK")
       => /\ pc'["task"] = pc["task"]
          /\ ota_task_handle' = ota_task_handle]_vars

====
